---- MODULE Spec2Model ----
(***************************************************************************)
(* A model of triotp: the supervisor (restart strategies and the restart   *)
(* intensity window), the defer_to_cancelled wrapper, the mailbox registry  *)
(* with its rendezvous channels, the generic server, the dynamic           *)
(* supervisor, and the applications of a node.                             *)
(*                                                                         *)
(* The specifications of the module:                                       *)
(*   Spec       supervisor.start over a list of child specs                *)
(*   DeferSpec  defer_to_cancelled applied to exception groups             *)
(*   MbxSpec    the mailbox registry driven by a set of tasks              *)
(*   RecvSpec   the calls on mailbox ids, receive with its timeouts        *)
(*   OpenSpec   tasks in `async with mailbox.open(name)` blocks            *)
(*   GenSpec    a generic server (the key-value store) and its callers     *)
(*   LoopSpec   gen_server._loop over any callback module                  *)
(*   DynSpec    a dynamic supervisor and the children given to it          *)
(*   AppSpec    node.run, application.start and application.stop           *)
(*   LoopCancelSpec    LoopSpec with the cancellation of the server's task *)
(*   CallExitSpec      gen_server.call against _loop with any module;      *)
(*                     CallExitFairSpec adds the scheduler's fairness      *)
(*   RestartSpec       a named generic server as a supervised child        *)
(* Each leaves the variables of the others at their idle value.            *)
(***************************************************************************)
EXTENDS Integers, Sequences, FiniteSets, TLC

VARIABLES
    \* ---- supervisor.py -------------------------------------------------
    max_restarts,   \* options.max_restarts
    max_seconds,    \* options.max_seconds
    restart,        \* child id -> restart_strategy of its child_spec
    now,            \* trio.current_time()
    pc,             \* child id -> position of its _child_monitor
    exec_count,     \* child id -> number of times the task body began
    failure_times,  \* child id -> _retry_strategy.failure_times (a deque)
    outcome,        \* child id -> retry_state.outcome of the last attempt
    result,         \* child id -> how _child_monitor ended
    cancelled,      \* the supervisor's nursery cancel scope is cancelled
    sup,            \* position and result of supervisor.start
    hist,           \* history: per child what the attempts did (see HistInit)
    \* ---- defer_to_cancelled -------------------------------------------
    exc_in,         \* the exception raised inside the with block
    exc_out,        \* the exception that leaves the with block
    \* ---- mailbox.py ----------------------------------------------------
    mailbox_registry,  \* context_mailbox_registry: the set of its keys
    name_registry,     \* context_name_registry: name -> mid, or None
    chan,              \* mid -> the memory channel pair created for it
    task,              \* task id -> what the task is doing
    log,               \* history: messages sent and received, last call
    scope,             \* task id -> its `async with mailbox.open(name)` block
    \* ---- gen_server.py -------------------------------------------------
    gs,                \* the generic server: position in _loop, state, message
    mbox,              \* the callers waiting in mailbox.send, with their messages
    calls,             \* caller id -> its gen_server.call and its reply channel
    bg,                \* call number -> the background task replying to it
    glog,              \* history: calls made, requests handled in order
    lp,                \* a generic server with any callback module: its _loop
    lplog,             \* history: the messages it received, the callbacks called
    \* ---- application.py, node.py ---------------------------------------
    app_registry,      \* context_app_registry: module name -> nursery, or None
    scopes,            \* the _app_scope tasks started, in order of start
    starting,          \* task id -> its application.start or stop call
    node               \* node._start: position, next application, result

supVars == <<max_restarts, max_seconds, restart, now, pc, exec_count,
             failure_times, outcome, result, cancelled, sup, hist>>
deferVars == <<exc_in, exc_out>>
mbxVars == <<mailbox_registry, name_registry, chan, task, log>>
openVars == <<scope>>
genVars == <<gs, mbox, calls, bg, glog>>
loopVars == <<lp, lplog>>
appVars == <<app_registry, scopes, starting, node>>
vars == <<supVars, deferVars, mbxVars, openVars, genVars, loopVars, appVars>>

\* What no step of supervisor.start changes: the options, the child specs
\* and the state of the other two specifications.
supFixed == <<max_restarts, max_seconds, restart, deferVars, mbxVars, openVars, genVars,
              loopVars, appVars>>

None == "None"

----------------------------------------------------------------------------
(* Bounds of the model.                                                    *)

MaxRestarts == 1   \* options.max_restarts ranges over 0..MaxRestarts
MaxSeconds == 1    \* options.max_seconds ranges over 0..MaxSeconds
MaxClock == 2      \* the clock stops advancing at MaxClock
MaxExec == 4       \* no more than MaxExec task bodies begin in a run
MaxWidth == 2      \* exceptions per exception group
MaxDepth == 3      \* nesting depth of the exception groups
MaxSends == 2      \* messages sent in a run
MaxCalls == 2      \* gen_server.call calls made in a run

Children == <<"c1", "c2">>
ChildIds == {Children[i] : i \in 1..Len(Children)}

----------------------------------------------------------------------------
(* defer_to_cancelled (supervisor.py).                                     *)
(* An exception is a record: a leaf has type Cancelled or RuntimeError and *)
(* its repr(); a group has type BaseExceptionGroup and its .exceptions.    *)

Leaf(type, repr) == [type |-> type, repr |-> repr, exceptions |-> <<>>]
Group(excs) == [type |-> "BaseExceptionGroup", repr |-> "group", exceptions |-> excs]
IsGroup(exc) == exc.type = "BaseExceptionGroup"
privileged_types == {"Cancelled"}

\* excs_by_repr[repr(exc)] = exc on a dict kept in insertion order.
DictSet(d, k, v) ==
    IF \E i \in 1..Len(d) : d[i].key = k
    THEN [i \in 1..Len(d) |-> IF d[i].key = k THEN [key |-> k, value |-> v] ELSE d[i]]
    ELSE Append(d, [key |-> k, value |-> v])

RECURSIVE DeferWalk(_, _)
RECURSIVE DeferScan(_, _, _, _)
\* while exc_groups: exc_group = exc_groups.pop(); for exc in ...
DeferWalk(exc_groups, excs_by_repr) ==
    IF exc_groups = <<>>
    THEN [propagate |-> FALSE, excs_by_repr |-> excs_by_repr]
    ELSE DeferScan(exc_groups[Len(exc_groups)].exceptions, 1,
                   SubSeq(exc_groups, 1, Len(exc_groups) - 1), excs_by_repr)
\* the body of: for exc in exc_group.exceptions
DeferScan(excs, i, exc_groups, excs_by_repr) ==
    IF i > Len(excs) THEN DeferWalk(exc_groups, excs_by_repr)
    ELSE IF IsGroup(excs[i])
         THEN DeferScan(excs, i + 1, Append(exc_groups, excs[i]), excs_by_repr)
    ELSE IF excs[i].type \notin privileged_types
         THEN [propagate |-> TRUE, excs_by_repr |-> excs_by_repr]
    ELSE DeferScan(excs, i + 1, exc_groups, DictSet(excs_by_repr, excs[i].repr, excs[i]))

\* A variant with strict = False: several cancellations collapse to the first.
DeferToCancelled_NotStrict(root_exc_group) ==
    LET w == DeferWalk(<<root_exc_group>>, <<>>)
    IN  IF w.propagate THEN root_exc_group ELSE w.excs_by_repr[1].value

\* The exception that leaves the with block when root_exc_group was raised in it.
DeferToCancelled(root_exc_group) ==
    LET w == DeferWalk(<<root_exc_group>>, <<>>)
        priority_excs == [i \in 1..Len(w.excs_by_repr) |-> w.excs_by_repr[i].value]
    IN  IF w.propagate THEN root_exc_group
        ELSE IF Len(priority_excs) > 1 THEN root_exc_group
        ELSE priority_excs[1]

----------------------------------------------------------------------------
(* supervisor.py: restart strategies and the restart decision.             *)

PERMANENT == "PERMANENT"
TRANSIENT == "TRANSIENT"
TEMPORARY == "TEMPORARY"
restart_strategy == {PERMANENT, TRANSIENT, TEMPORARY}

\* Outcomes are records like the exceptions: Pending while there is none yet,
\* Returned for an attempt, or a monitor, that ended without raising.
Pending == Leaf("pending", "")
Returned == Leaf("returned", "None")
Cancelled == Leaf("Cancelled", "Cancelled()")
RuntimeError(c, k) == Leaf("RuntimeError", c \o "#" \o ToString(k))

\* retry_state.outcome.failed
Failed(o) == o.type \notin {"pending", "returned"}

\* Variants of _retry_strategy.__call__ with one slip each.
\* `<` for `<=` in the length test.
RetryStrategy_OffByOne(strategy, o, times, t, R, S) ==
    IF strategy = TEMPORARY \/ (strategy = TRANSIENT /\ ~Failed(o))
    THEN [retry |-> FALSE, failure_times |-> times, eligible |-> FALSE]
    ELSE LET appended == Append(times, t)
         IN  IF Len(appended) < R
             THEN [retry |-> TRUE, failure_times |-> appended, eligible |-> TRUE]
             ELSE [retry |-> t - Head(appended) >= S,
                   failure_times |-> Tail(appended), eligible |-> TRUE]
\* The failures are recorded but never counted.
RetryStrategy_NoBudget(strategy, o, times, t, R, S) ==
    IF strategy = TEMPORARY \/ (strategy = TRANSIENT /\ ~Failed(o))
    THEN [retry |-> FALSE, failure_times |-> times, eligible |-> FALSE]
    ELSE [retry |-> TRUE, failure_times |-> Append(times, t), eligible |-> TRUE]
\* TEMPORARY falls through to the TRANSIENT case.
RetryStrategy_TemporaryFallsThrough(strategy, o, times, t, R, S) ==
    IF strategy \in {TEMPORARY, TRANSIENT} /\ ~Failed(o)
    THEN [retry |-> FALSE, failure_times |-> times, eligible |-> FALSE]
    ELSE LET appended == Append(times, t)
         IN  IF Len(appended) <= R
             THEN [retry |-> TRUE, failure_times |-> appended, eligible |-> TRUE]
             ELSE [retry |-> t - Head(appended) >= S,
                   failure_times |-> Tail(appended), eligible |-> TRUE]
\* TRANSIENT does not look at the outcome.
RetryStrategy_TransientIgnoresOutcome(strategy, o, times, t, R, S) ==
    IF strategy = TEMPORARY
    THEN [retry |-> FALSE, failure_times |-> times, eligible |-> FALSE]
    ELSE LET appended == Append(times, t)
         IN  IF Len(appended) <= R
             THEN [retry |-> TRUE, failure_times |-> appended, eligible |-> TRUE]
             ELSE [retry |-> t - Head(appended) >= S,
                   failure_times |-> Tail(appended), eligible |-> TRUE]
\* `>` for `>=` in the comparison with max_seconds.
RetryStrategy_Strict(strategy, o, times, t, R, S) ==
    IF strategy = TEMPORARY \/ (strategy = TRANSIENT /\ ~Failed(o))
    THEN [retry |-> FALSE, failure_times |-> times, eligible |-> FALSE]
    ELSE LET appended == Append(times, t)
         IN  IF Len(appended) <= R
             THEN [retry |-> TRUE, failure_times |-> appended, eligible |-> TRUE]
             ELSE [retry |-> t - Head(appended) > S,
                   failure_times |-> Tail(appended), eligible |-> TRUE]

\* _retry_strategy.__call__: whether to run the task again, and the deque after
\* the call. `eligible` tells whether the call reached the intensity check.
RetryStrategy(strategy, o, times, t, R, S) ==
    IF strategy = TEMPORARY \/ (strategy = TRANSIENT /\ ~Failed(o))
    THEN [retry |-> FALSE, failure_times |-> times, eligible |-> FALSE]
    ELSE LET appended == Append(times, t)
         IN  IF Len(appended) <= R
             THEN [retry |-> TRUE, failure_times |-> appended, eligible |-> TRUE]
             ELSE [retry |-> t - Head(appended) >= S,
                   failure_times |-> Tail(appended), eligible |-> TRUE]

\* What _child_runner raises when the task raised exc: the task's nursery
\* raises a group holding it, which passes through defer_to_cancelled.
ChildRunnerRaises(exc) == DeferToCancelled(Group(<<exc>>))

----------------------------------------------------------------------------
(* History kept beside the program state, read only by the properties.     *)

HistInit == [times |-> <<>>,          \* timestamps of the eligible terminations
             allowed |-> FALSE,       \* the decision at the last of them
             all_returned |-> TRUE,   \* every attempt so far returned normally
             all_raised |-> TRUE]     \* every attempt so far raised RuntimeError

----------------------------------------------------------------------------
(* supervisor.start and _child_monitor.                                    *)

\* The supervisor variables while another specification runs.
SupIdle ==
    /\ max_restarts = 0 /\ max_seconds = 0 /\ restart = <<>> /\ now = 0
    /\ pc = <<>> /\ exec_count = <<>> /\ failure_times = <<>>
    /\ outcome = <<>> /\ result = <<>> /\ cancelled = FALSE
    /\ sup = <<>> /\ hist = <<>>
\* The variables of defer_to_cancelled while another specification runs.
DeferIdle == exc_in = None /\ exc_out = None
\* The mailbox variables while another specification runs.
MbxIdle ==
    /\ mailbox_registry = {} /\ name_registry = <<>> /\ chan = <<>>
    /\ task = <<>> /\ log = <<>>
\* No task is in a mailbox.open block.
OpenIdle == scope = <<>>
\* No generic server runs.
GenIdle == gs = <<>> /\ mbox = <<>> /\ calls = <<>> /\ bg = <<>> /\ glog = <<>>
LoopIdle == lp = <<>> /\ lplog = <<>>
\* No node runs.
AppIdle == app_registry = <<>> /\ scopes = <<>> /\ starting = <<>> /\ node = <<>>

Init ==
    /\ max_restarts \in 0..MaxRestarts
    /\ max_seconds \in 0..MaxSeconds
    /\ restart \in [ChildIds -> restart_strategy]
    /\ now = 0
    /\ pc = [c \in ChildIds |-> "init"]
    /\ exec_count = [c \in ChildIds |-> 0]
    /\ failure_times = [c \in ChildIds |-> <<>>]
    /\ outcome = [c \in ChildIds |-> Pending]
    /\ result = [c \in ChildIds |-> Pending]
    /\ cancelled = FALSE
    /\ sup = [pc |-> "starting", next |-> 1, result |-> None, errors |-> {}]
    /\ hist = [c \in ChildIds |-> HistInit]
    /\ DeferIdle /\ MbxIdle /\ OpenIdle /\ GenIdle /\ LoopIdle /\ AppIdle

\* start: `await nursery.start(_child_monitor, spec, opts)` for the next spec.
\* The monitor runs up to `nursery.start_soon(spec.task, *spec.args)`. In a
\* cancelled scope task_status.started() returns without handing the monitor
\* over, and nursery.start raises once the monitor has ended: the loop ends.
StartMonitor(c) ==
    /\ sup.pc = "starting"
    /\ sup.next <= Len(Children) /\ c = Children[sup.next]
    /\ pc' = [pc EXCEPT ![c] = "spawned"]
    /\ sup' = [sup EXCEPT !.next = @ + 1,
                          !.pc = IF cancelled THEN "aborted"
                                 ELSE IF sup.next = Len(Children) THEN "waiting"
                                 ELSE "starting"]
    /\ UNCHANGED <<supFixed, now, exec_count, failure_times, outcome, result, cancelled, hist>>

\* The scheduler runs the spawned task for the first time: the body begins,
\* cancelled scope or not (Cancelled is delivered at a checkpoint only).
BodyBegins(c) ==
    /\ pc[c] = "spawned"
    /\ pc' = [pc EXCEPT ![c] = "running"]
    /\ exec_count' = [exec_count EXCEPT ![c] = @ + 1]
    /\ UNCHANGED <<supFixed, now, failure_times, outcome, result, cancelled, sup, hist>>

\* A variant in which the monitors share one _retry_strategy, hence one
\* deque.
AttemptEnds_SharedBudget(c, o) ==
    LET d == RetryStrategy(restart[c], o, failure_times[c], now,
                           max_restarts, max_seconds)
    IN  /\ pc[c] = "running"
        /\ outcome' = [outcome EXCEPT ![c] = o]
        /\ failure_times' = [x \in ChildIds |-> d.failure_times]
        /\ pc' = [pc EXCEPT ![c] = IF d.retry THEN "sleep" ELSE "done"]
        /\ result' = [result EXCEPT ![c] = IF d.retry THEN @ ELSE o]
        /\ cancelled' = (cancelled \/ (~d.retry /\ Failed(o)))
        /\ hist' = [hist EXCEPT ![c] =
                      [@ EXCEPT !.times = IF d.eligible THEN Append(@, now) ELSE @,
                                !.allowed = IF d.eligible THEN d.retry ELSE @,
                                !.all_returned = @ /\ o = Returned,
                                !.all_raised = @ /\ o # Returned /\ o # Cancelled]]
        /\ UNCHANGED <<supFixed, now, exec_count, sup>>

\* A variant in which a monitor that raises does not cancel the nursery.
AttemptEnds_NoCancel(c, o) ==
    LET d == RetryStrategy(restart[c], o, failure_times[c], now,
                           max_restarts, max_seconds)
    IN  /\ pc[c] = "running"
        /\ outcome' = [outcome EXCEPT ![c] = o]
        /\ failure_times' = [failure_times EXCEPT ![c] = d.failure_times]
        /\ pc' = [pc EXCEPT ![c] = IF d.retry THEN "sleep" ELSE "done"]
        /\ result' = [result EXCEPT ![c] = IF d.retry THEN @ ELSE o]
        /\ hist' = [hist EXCEPT ![c] =
                      [@ EXCEPT !.times = IF d.eligible THEN Append(@, now) ELSE @,
                                !.allowed = IF d.eligible THEN d.retry ELSE @,
                                !.all_returned = @ /\ o = Returned,
                                !.all_raised = @ /\ o # Returned /\ o # Cancelled]]
        /\ UNCHANGED <<supFixed, now, exec_count, cancelled, sup>>

\* The attempt of c ends with outcome o: tenacity records it, asks the retry
\* strategy and either goes on to sleep before the next attempt or returns
\* fut.result(). A monitor that raises makes the supervisor's nursery cancel
\* its scope.
AttemptEnds(c, o) ==
    LET d == RetryStrategy(restart[c], o, failure_times[c], now,
                           max_restarts, max_seconds)
        p == [pc EXCEPT ![c] = IF d.retry THEN "sleep" ELSE "done"]
        k == cancelled \/ (~d.retry /\ Failed(o))
        h == [hist EXCEPT ![c] =
                [@ EXCEPT !.times = IF d.eligible THEN Append(@, now) ELSE @,
                          !.allowed = IF d.eligible THEN d.retry ELSE @,
                          !.all_returned = @ /\ o = Returned,
                          !.all_raised = @ /\ o # Returned /\ o # Cancelled]]
    IN  /\ pc[c] = "running"
        /\ outcome' = [outcome EXCEPT ![c] = o]
        /\ failure_times' = [failure_times EXCEPT ![c] = d.failure_times]
        /\ pc' = p
        /\ result' = [result EXCEPT ![c] = IF d.retry THEN @ ELSE o]
        /\ cancelled' = k
        /\ hist' = h
        /\ UNCHANGED <<supFixed, now, exec_count, sup>>

\* The task returns.
ChildReturns(c) == AttemptEnds(c, Returned)

\* The task raises an error.
ChildRaises(c) == AttemptEnds(c, ChildRunnerRaises(RuntimeError(c, exec_count[c])))

\* The task is at a checkpoint in a cancelled scope and lets Cancelled through.
ChildCancelled(c) == cancelled /\ AttemptEnds(c, ChildRunnerRaises(Cancelled))

\* The attempts spawned so far.
Started == LET n[i \in 0..Len(Children)] ==
                   IF i = 0 THEN 0
                   ELSE n[i - 1] + exec_count[Children[i]]
                            + (IF pc[Children[i]] = "spawned" THEN 1 ELSE 0)
           IN  n[Len(Children)]

\* A variant of the restart whose sleep is no checkpoint.
RestartChild_NoCheckpoint(c) ==
    /\ pc[c] = "sleep"
    /\ Started < MaxExec
    /\ pc' = [pc EXCEPT ![c] = "spawned"]
    /\ UNCHANGED <<supFixed, now, exec_count, failure_times, outcome, result, cancelled, sup, hist>>

\* tenacity's `await self.sleep(0)` passes its checkpoint and the next attempt
\* is spawned.
RestartChild(c) ==
    /\ pc[c] = "sleep" /\ ~cancelled
    /\ Started < MaxExec
    /\ pc' = [pc EXCEPT ![c] = "spawned"]
    /\ UNCHANGED <<supFixed, now, exec_count, failure_times, outcome, result, cancelled, sup, hist>>

\* A variant in which the cancelled sleep goes on to the next attempt.
SleepCancelled_Respawns(c) ==
    /\ pc[c] = "sleep" /\ cancelled
    /\ Started < MaxExec
    /\ pc' = [pc EXCEPT ![c] = "spawned"]
    /\ UNCHANGED <<supFixed, now, exec_count, failure_times, outcome, result, cancelled, sup, hist>>

\* tenacity's `await self.sleep(0)` raises Cancelled, which leaves the monitor.
SleepCancelled(c) ==
    /\ pc[c] = "sleep" /\ cancelled
    /\ pc' = [pc EXCEPT ![c] = "done"]
    /\ result' = [result EXCEPT ![c] = Cancelled]
    /\ UNCHANGED <<supFixed, now, exec_count, failure_times, outcome, cancelled, sup, hist>>

\* The scope around supervisor.start is cancelled from outside
\* (application.stop: local_nursery.cancel_scope.cancel()).
Cancel ==
    /\ ~cancelled /\ sup.pc # "done"
    /\ cancelled' = TRUE
    /\ UNCHANGED <<supFixed, now, pc, exec_count, failure_times, outcome, result, sup, hist>>

\* Time passes.
Tick ==
    /\ now < MaxClock /\ \E c \in ChildIds : pc[c] = "running"
    /\ now' = now + 1
    /\ UNCHANGED <<supFixed, pc, exec_count, failure_times, outcome, result, cancelled, sup, hist>>

\* The nursery of supervisor.start has no running monitor left: start ends,
\* raising the group of what its monitors raised if any of them raised.
SupervisorExits ==
    LET started == {c \in ChildIds : pc[c] # "init"}
        raised == {result[c] : c \in {x \in started : Failed(result[x])}}
        errors == {e \in raised : e # Cancelled}
    IN  /\ sup.pc \in {"waiting", "aborted"}
        /\ \A c \in started : pc[c] = "done"
        /\ sup' = [sup EXCEPT !.pc = "done",
                              !.errors = errors,
                              !.result = IF errors # {} THEN "raised"
                                         ELSE IF raised # {} \/ sup.pc = "aborted"
                                         THEN "cancelled" ELSE Returned]
        /\ UNCHANGED <<supFixed, now, pc, exec_count, failure_times, outcome, result, cancelled, hist>>

Next ==
    \/ \E c \in ChildIds : StartMonitor(c)
    \/ \E c \in ChildIds : BodyBegins(c)
    \/ \E c \in ChildIds : ChildReturns(c)
    \/ \E c \in ChildIds : ChildRaises(c)
    \/ \E c \in ChildIds : ChildCancelled(c)
    \/ \E c \in ChildIds : RestartChild(c)
    \/ \E c \in ChildIds : SleepCancelled(c)
    \/ Cancel
    \/ Tick
    \/ SupervisorExits

Spec == Init /\ [][Next]_vars

----------------------------------------------------------------------------
(* Properties of the supervisor, checked under Spec.                       *)

Last(s) == s[Len(s)]

\* Every attempt of c so far ended at the same instant.
Immediate(c) == \A i \in 1..Len(hist[c].times) : hist[c].times[i] = hist[c].times[1]

\* The eligible terminations of c so far lie less than max_seconds apart.
WithinWindow(c) ==
    \A i, j \in 1..Len(hist[c].times) : hist[c].times[j] - hist[c].times[i] < max_seconds

\* A permanent child all of whose attempts returned at once, in a group that
\* is not cancelled.
ReturnsImmediately(c) ==
    /\ restart[c] = PERMANENT /\ hist[c].all_returned /\ Immediate(c)
    /\ ~cancelled

\* What C1 and its amendment say of such a child and of supervisor.start.
RunsRPlus1ThenClean(c) ==
    /\ exec_count[c] <= max_restarts + 1
    /\ Len(hist[c].times) = max_restarts + 1 => pc[c] = "done"
    /\ pc[c] = "done" => exec_count[c] = max_restarts + 1 /\ result[c] = Returned
    /\ (sup.pc = "done" /\ \A x \in ChildIds : ReturnsImmediately(x))
          => sup.result = Returned /\ sup.errors = {}

\* C1 as stated: for every max_restarts and max_seconds, a permanent child
\* that returns normally at once on every attempt is executed exactly
\* max_restarts + 1 times, and then its monitor and supervisor.start end
\* without an error.
C1_Original == \A c \in ChildIds : ReturnsImmediately(c) => RunsRPlus1ThenClean(c)

\* C1 amended: the same for every max_restarts and every max_seconds > 0.
C1_PermanentReturns ==
    \A c \in ChildIds :
        (max_seconds > 0 /\ ReturnsImmediately(c)) => RunsRPlus1ThenClean(c)

C1_Witness ==
    /\ max_restarts = 1 /\ max_seconds > 0 /\ sup.pc = "done"
    /\ \A c \in ChildIds : ReturnsImmediately(c) /\ exec_count[c] = 2

\* A permanent or transient child all of whose attempts raised an error and
\* whose monitor was not ended by a cancellation.
RaisesAlways(c) ==
    /\ restart[c] \in {PERMANENT, TRANSIENT} /\ hist[c].all_raised
    /\ result[c] # Cancelled

\* What C2 and its amendment say of such a child and of supervisor.start.
RunsRPlus1ThenRaises(c) ==
    /\ exec_count[c] <= max_restarts + 1
    /\ pc[c] = "done" =>
          /\ exec_count[c] = max_restarts + 1
          /\ result[c] = Group(<<RuntimeError(c, max_restarts + 1)>>)
          /\ sup.pc = "done" => sup.result = "raised" /\ result[c] \in sup.errors

\* C2 as stated: for all inputs a permanent or transient child that raises
\* an error on every attempt is executed exactly max_restarts + 1 times, and
\* then supervisor.start raises the error of the last attempt.
C2_Original == \A c \in ChildIds : RaisesAlways(c) => RunsRPlus1ThenRaises(c)

\* C2 amended: the same when the failures of the child lie less than
\* max_seconds apart (so max_seconds > 0).
C2_AlwaysRaises ==
    \A c \in ChildIds : (RaisesAlways(c) /\ WithinWindow(c)) => RunsRPlus1ThenRaises(c)

C2_Witness ==
    \E c \in ChildIds :
        /\ restart[c] = TRANSIENT /\ RaisesAlways(c) /\ WithinWindow(c)
        /\ max_restarts = 1 /\ exec_count[c] = 2 /\ pc[c] = "done"
        /\ sup.pc = "done" /\ sup.result = "raised"

\* C3: a temporary child is executed exactly once whatever its attempt did
\* and whatever the options: its monitor never waits for a restart, ends
\* with the outcome of the only attempt, and records no termination.
C3_TemporaryOnce ==
    \A c \in ChildIds :
        restart[c] = TEMPORARY =>
            /\ exec_count[c] <= 1
            /\ pc[c] # "sleep"
            /\ failure_times[c] = <<>>
            /\ pc[c] = "done" => exec_count[c] = 1 /\ result[c] = outcome[c]

C3_Witness ==
    \E c \in ChildIds :
        /\ restart[c] = TEMPORARY /\ max_restarts > 0 /\ pc[c] = "done"
        /\ Failed(result[c]) /\ result[c] # Cancelled /\ exec_count[c] = 1

\* C4: a transient child is restarted only after an attempt that raised.
\* While a restart is pending or running the previous attempt raised; the
\* first attempt that returns ends the monitor without error, whatever the
\* earlier attempts did; a transient child whose every attempt returned ran
\* once, and a supervisor of such children ends without error.
C4_TransientReturns ==
    \A c \in ChildIds :
        restart[c] = TRANSIENT =>
            /\ outcome[c] = Returned => pc[c] = "done" /\ result[c] = Returned
            /\ (pc[c] # "done" /\ outcome[c] # Pending) => Failed(outcome[c])
            /\ (hist[c].all_returned /\ pc[c] = "done") => exec_count[c] = 1
            /\ (sup.pc = "done" /\ ~cancelled
                  /\ \A x \in ChildIds : restart[x] = TRANSIENT /\ hist[x].all_returned)
                  => sup.result = Returned

C4_Witness ==
    \E c \in ChildIds :
        /\ restart[c] = TRANSIENT /\ outcome[c] = Returned /\ exec_count[c] = 3
        /\ pc[c] = "done" /\ Len(failure_times[c]) <= max_restarts

\* C5 as stated: once the group is cancelled no execution count grows.
C5_Original == [][cancelled => exec_count' = exec_count]_vars

\* C5 amended: once the group is cancelled no monitor spawns another attempt
\* (a monitor waiting to restart ends instead, whatever budget remains), so
\* an execution count grows only by an attempt that was spawned, or whose
\* monitor was being started, before the body began.
C5_NoRestartAfterCancel ==
    [][cancelled =>
         \A c \in ChildIds :
            /\ pc'[c] = "spawned" => pc[c] \in {"init", "spawned"}
            /\ exec_count'[c] # exec_count[c] => pc[c] = "spawned"
            /\ pc[c] = "sleep" => pc'[c] \in {"sleep", "done"}]_vars

C5_Witness ==
    \E c \in ChildIds :
        /\ cancelled /\ restart[c] = PERMANENT /\ pc[c] = "done"
        /\ result[c] = Cancelled /\ Len(hist[c].times) <= max_restarts

\* The monitor of c has ended with the error of its last attempt: the
\* restart was not allowed.
Crashed(c) == pc[c] = "done" /\ Failed(result[c]) /\ result[c] # Cancelled

\* C36 as stated: once the monitor of a child has reraised its last error,
\* no other child of the supervisor is executed again.
C36_Original ==
    [][\A c \in ChildIds :
          Crashed(c) => \A x \in ChildIds \ {c} : exec_count'[x] = exec_count[x]]_vars

\* C36 amended: when the restart of a child is not allowed after an error,
\* its monitor ends with the error of its last attempt and the nursery of
\* the supervisor is cancelled; from then on a sibling that is running or
\* waiting to restart is not executed again, no attempt is spawned, and only
\* an attempt that was spawned before (or whose monitor was being started)
\* and had not begun begins, once; supervisor.start ends by raising a group
\* that holds the error.
C36_Propagates ==
    [][\A c \in ChildIds :
          Crashed(c)' =>
              /\ result'[c] = ChildRunnerRaises(RuntimeError(c, exec_count'[c]))
              /\ cancelled'
              /\ sup'.pc = "done" => (sup'.result = "raised" /\ result'[c] \in sup'.errors)
              /\ Crashed(c) =>
                    \A x \in ChildIds \ {c} :
                        /\ pc'[x] = "spawned" => pc[x] \in {"init", "spawned"}
                        /\ exec_count'[x] # exec_count[x] =>
                              (pc[x] = "spawned" /\ exec_count'[x] = exec_count[x] + 1)
                        /\ pc[x] \in {"running", "sleep", "done"} =>
                              /\ pc'[x] \in {"running", "sleep", "done"}
                              /\ exec_count'[x] = exec_count[x]]_vars

\* The first child used up max_restarts = 1 and ended with its second
\* error; the second child, permanent and in its first attempt, was
\* cancelled and not run again, and supervisor.start raised that error
\* alone.
C36_Witness ==
    /\ max_restarts = 1 /\ Crashed("c1") /\ exec_count["c1"] = 2
    /\ restart["c2"] = PERMANENT /\ pc["c2"] = "done" /\ result["c2"] = Cancelled
    /\ exec_count["c2"] = 1
    /\ sup.pc = "done" /\ sup.result = "raised" /\ sup.errors = {result["c1"]}

\* The eligible terminations of c in the window (t - max_seconds, t].
InWindow(c, t) ==
    {i \in 1..Len(hist[c].times) :
        hist[c].times[i] > t - max_seconds /\ hist[c].times[i] <= t}

\* C6: the decision taken with the deque is the one of the sliding window:
\* at an eligible termination at time t the restart is allowed iff at most
\* max_restarts eligible terminations of the child, this one included, lie
\* in (t - max_seconds, t]; when it is not allowed the monitor ends with the
\* last outcome.
C6_SlidingWindow ==
    \A c \in ChildIds :
        Len(hist[c].times) > 0 =>
            /\ hist[c].allowed <=>
                  Cardinality(InWindow(c, Last(hist[c].times))) <= max_restarts
            /\ ~hist[c].allowed => pc[c] = "done" /\ result[c] = outcome[c]

C6_Witness ==
    \E c \in ChildIds :
        /\ max_restarts = 1 /\ max_seconds = 1
        /\ Len(hist[c].times) = 3 /\ ~hist[c].allowed
        /\ hist[c].times[1] < hist[c].times[2]

\* The attempt of c ends in this step, with a cancellation.
EndsCancelled(c) == pc[c] = "running" /\ pc'[c] # "running" /\ outcome'[c] = Cancelled

\* C29 as stated: the restart policy does not treat a cancellation as a
\* failure: when an attempt of a permanent or transient child ends with a
\* cancellation, the decision is not to restart, nothing is recorded as a
\* failure, and the monitor ends with the cancellation.
C29_Original ==
    [][\A c \in ChildIds :
          (restart[c] \in {PERMANENT, TRANSIENT} /\ EndsCancelled(c)) =>
              /\ pc'[c] = "done" /\ result'[c] = Cancelled
              /\ failure_times'[c] = failure_times[c]]_vars

\* C29 amended: after an attempt of a permanent or transient child that
\* ended with a cancellation the task is not executed again, and the monitor
\* ends with the cancellation: either the policy gives up and the
\* cancellation of the attempt is reraised, or the policy, which counts the
\* cancellation as a failure, allows a restart and the sleep before it
\* raises Cancelled.
C29_NoRestartOfCancelled ==
    [][\A c \in ChildIds :
          /\ (restart[c] \in {PERMANENT, TRANSIENT} /\ EndsCancelled(c)) =>
                 /\ pc'[c] \in {"sleep", "done"}
                 /\ pc'[c] = "done" => result'[c] = Cancelled
                 /\ Len(hist'[c].times) = Len(hist[c].times) + 1
          /\ (outcome[c] = Cancelled /\ pc[c] # "running") =>
                 /\ exec_count'[c] = exec_count[c]
                 /\ pc'[c] \in {pc[c], "done"}
                 /\ pc'[c] = "done" => result'[c] = Cancelled]_vars

\* A transient child with restarts left ended an attempt with a
\* cancellation, was counted as failed, and its monitor ended with Cancelled
\* at the sleep.
C29_Witness ==
    \E c \in ChildIds :
        /\ restart[c] = TRANSIENT /\ outcome[c] = Cancelled /\ pc[c] = "done"
        /\ result[c] = Cancelled /\ exec_count[c] = 1 /\ max_restarts = 1
        /\ Len(failure_times[c]) = 1

----------------------------------------------------------------------------
(* defer_to_cancelled on its own: an exception raised in the with block,   *)
(* possibly wrapped by further nurseries on its way, leaves the block.     *)

CancelledOther == Leaf("Cancelled", "Cancelled(source='deadline')")
SomeError == Leaf("RuntimeError", "RuntimeError('pytest')")
Leaves == {Cancelled, CancelledOther, SomeError}

SeqsUpTo(S, n) == UNION {[1..k -> S] : k \in 1..n}
FlatGroups == {Group(x) : x \in SeqsUpTo(Leaves, MaxWidth)}
ExcGroups == {Group(x) : x \in SeqsUpTo(Leaves \cup FlatGroups, MaxWidth)}

RECURSIVE Depth(_)
Depth(exc) ==
    IF ~IsGroup(exc) THEN 0
    ELSE LET d[i \in 0..Len(exc.exceptions)] ==
                 IF i = 0 THEN 0
                 ELSE LET x == Depth(exc.exceptions[i])
                      IN  IF x > d[i - 1] THEN x ELSE d[i - 1]
         IN  1 + d[Len(exc.exceptions)]

DeferInit ==
    /\ exc_in \in Leaves \cup ExcGroups
    /\ exc_out = Pending
    /\ SupIdle /\ LoopIdle /\ AppIdle /\ MbxIdle /\ OpenIdle /\ GenIdle

\* A nursery between the raise and the with block wraps the exception.
NurseryWraps ==
    /\ exc_out = Pending
    /\ Depth(exc_in) < MaxDepth
    /\ exc_in' = Group(<<exc_in>>)
    /\ UNCHANGED <<exc_out, supVars, mbxVars, loopVars, appVars, openVars, genVars>>

\* `except BaseExceptionGroup as root_exc_group` handles a group.
DeferHandlesGroup ==
    /\ exc_out = Pending /\ IsGroup(exc_in)
    /\ exc_out' = DeferToCancelled(exc_in)
    /\ UNCHANGED <<exc_in, supVars, mbxVars, loopVars, appVars, openVars, genVars>>

\* Any other exception passes the with block untouched.
DeferPasses ==
    /\ exc_out = Pending /\ ~IsGroup(exc_in)
    /\ exc_out' = exc_in
    /\ UNCHANGED <<exc_in, supVars, mbxVars, loopVars, appVars, openVars, genVars>>

DeferNext == NurseryWraps \/ DeferHandlesGroup \/ DeferPasses

DeferSpec == DeferInit /\ [][DeferNext]_vars

----------------------------------------------------------------------------
(* Properties of defer_to_cancelled, checked under DeferSpec.              *)

RECURSIVE LeavesOf(_)
LeavesOf(exc) ==
    IF IsGroup(exc)
    THEN UNION {LeavesOf(exc.exceptions[i]) : i \in 1..Len(exc.exceptions)}
    ELSE {exc}

OnlyCancellations(exc) == \A l \in LeavesOf(exc) : l.type = "Cancelled"

\* C7 as stated: from a group whose leaves are all cancellations exactly one
\* cancellation is reraised in place of the group; a group with a leaf, at
\* any depth, that is no cancellation propagates intact.
C7_Original ==
    (exc_out # Pending /\ IsGroup(exc_in)) =>
        IF OnlyCancellations(exc_in)
        THEN exc_out \in LeavesOf(exc_in)
        ELSE exc_out = exc_in

\* C7 amended: from a group whose leaves are all cancellations with one and
\* the same repr that cancellation is reraised in place of the group; a
\* group whose leaves are cancellations with different reprs propagates
\* intact, and so does a group with a leaf, at any depth, that is no
\* cancellation.
C7_DeferToCancelled ==
    (exc_out # Pending /\ IsGroup(exc_in)) =>
        IF OnlyCancellations(exc_in) /\ Cardinality({l.repr : l \in LeavesOf(exc_in)}) = 1
        THEN exc_out \in LeavesOf(exc_in)
        ELSE exc_out = exc_in

C7_Witness ==
    /\ exc_in = Group(<<Group(<<Group(<<Cancelled>>), Cancelled>>)>>)
    /\ exc_out = Cancelled

----------------------------------------------------------------------------
(* mailbox.py: the two registries and the channel of each mailbox.         *)

Tasks == {"t1", "t2"}
\* A name is any string: "m1" is also the first id create() draws.
Names == {"a", "b", "m1"}
\* The identifiers create() draws, in the order it draws them (str(uuid4()):
\* fresh, never reused).
MailboxIds == <<"m1", "m2">>
Mids == {MailboxIds[i] : i \in 1..Len(MailboxIds)}

\* Some task is free to make a call that never waits.
SomeTaskRuns == \E t \in Tasks : task[t].pc = "idle"

\* trio.open_memory_channel(0): the state shared by the two halves. A parked
\* sender waits in send_tasks with its value, a parked receiver in
\* receive_tasks, both in arrival order.
NoChannel == [created |-> FALSE, send_open |-> FALSE, receive_open |-> FALSE,
              send_tasks |-> <<>>, receive_tasks |-> <<>>]
NewChannel == [created |-> TRUE, send_open |-> TRUE, receive_open |-> TRUE,
               send_tasks |-> <<>>, receive_tasks |-> <<>>]

\* A variant that takes the target for an id when it is one.
Resolve_IdFirst(name_or_mid) ==
    IF name_or_mid \in mailbox_registry
    THEN name_or_mid
    ELSE IF name_or_mid \in Names /\ name_registry[name_or_mid] # None
    THEN name_registry[name_or_mid]
    ELSE name_or_mid

\* _resolve, then `if mid is None: mid = name_or_mid`.
Resolve(name_or_mid) ==
    IF name_or_mid \in Names /\ name_registry[name_or_mid] # None
    THEN name_registry[name_or_mid]
    ELSE name_or_mid

\* A variant that stops at the first name of mid.
UnregisterAll_FirstOnly(mid) ==
    LET mine == {n \in Names : name_registry[n] = mid}
        first == CHOOSE n \in mine : TRUE
    IN  IF mine = {} THEN name_registry ELSE [name_registry EXCEPT ![first] = None]

\* unregister_all(mid): the name registry without the names of mid.
UnregisterAll(mid) ==
    [n \in Names |-> IF name_registry[n] = mid THEN None ELSE name_registry[n]]

Idle == [pc |-> "idle", mid |-> None, result |-> None,
         timeout |-> FALSE, on_timeout |-> FALSE]

\* The record of the last call: what was called, and how it ended.
Call(op, target, name, res) ==
    [op |-> op, target |-> target, name |-> name, result |-> res, names |-> {}]
\* The record of a destroy(mid) that found mid, with the names mid had.
DestroyCall(mid) ==
    [Call("destroy", mid, None, "ok") EXCEPT
        !.names = {n \in Names : name_registry[n] = mid}]

MbxInit ==
    /\ mailbox_registry = {}
    /\ name_registry = [n \in Names |-> None]
    /\ chan = [m \in Mids |-> NoChannel]
    /\ task = [t \in Tasks |-> Idle]
    /\ log = [sent |-> [m \in Mids |-> <<>>],
              received |-> [m \in Mids |-> <<>>],
              sends |-> 0,
              last |-> Call(None, None, None, None)]
    /\ SupIdle /\ LoopIdle /\ AppIdle /\ DeferIdle /\ OpenIdle /\ GenIdle

\* create(): a fresh id mapped to a new channel.
Create ==
    LET n == Cardinality({m \in Mids : chan[m].created})
        mid == MailboxIds[n + 1]
    IN  /\ SomeTaskRuns
        /\ n < Len(MailboxIds)
        /\ mailbox_registry' = mailbox_registry \cup {mid}
        /\ chan' = [chan EXCEPT ![mid] = NewChannel]
        /\ log' = [log EXCEPT !.last = Call("create", None, None, mid)]
        /\ UNCHANGED <<name_registry, task, supVars, deferVars, loopVars, appVars, openVars, genVars>>

\* A variant of register that does not look the name up.
Register_Overwrites(mid, name) ==
    /\ SomeTaskRuns
    /\ IF mid \notin mailbox_registry
       THEN /\ log' = [log EXCEPT !.last =
                          Call("register", mid, name, "MailboxDoesNotExist")]
            /\ UNCHANGED name_registry
       ELSE /\ name_registry' = [name_registry EXCEPT ![name] = mid]
            /\ log' = [log EXCEPT !.last = Call("register", mid, name, "ok")]
    /\ UNCHANGED <<mailbox_registry, chan, task, supVars, deferVars, loopVars, appVars, openVars, genVars>>

\* register(mid, name).
Register(mid, name) ==
    /\ SomeTaskRuns
    /\ IF mid \notin mailbox_registry
       THEN /\ log' = [log EXCEPT !.last =
                          Call("register", mid, name, "MailboxDoesNotExist")]
            /\ UNCHANGED name_registry
       ELSE IF name_registry[name] # None
       THEN /\ log' = [log EXCEPT !.last =
                          Call("register", mid, name, "NameAlreadyExist")]
            /\ UNCHANGED name_registry
       ELSE /\ name_registry' = [name_registry EXCEPT ![name] = mid]
            /\ log' = [log EXCEPT !.last = Call("register", mid, name, "ok")]
    /\ UNCHANGED <<mailbox_registry, chan, task, supVars, deferVars, loopVars, appVars, openVars, genVars>>

\* unregister(name).
Unregister(name) ==
    /\ SomeTaskRuns
    /\ IF name_registry[name] = None
       THEN /\ log' = [log EXCEPT !.last =
                          Call("unregister", None, name, "NameDoesNotExist")]
            /\ UNCHANGED name_registry
       ELSE /\ name_registry' = [name_registry EXCEPT ![name] = None]
            /\ log' = [log EXCEPT !.last = Call("unregister", None, name, "ok")]
    /\ UNCHANGED <<mailbox_registry, chan, task, supVars, deferVars, loopVars, appVars, openVars, genVars>>

\* The tasks in the sequence q of parked senders, woken with result r.
Woken(q, r) == [t \in {q[i].task : i \in 1..Len(q)} |-> r]
\* The tasks tk with every task in the domain of w resumed with its result.
Resume(tk, w) ==
    [t \in Tasks |-> IF t \in DOMAIN w
                     THEN [Idle EXCEPT !.result = w[t]]
                     ELSE tk[t]]

\* A variant of destroy that pops mid and leaves its names registered.
Destroy_KeepsNames(t, mid) ==
    /\ task[t].pc = "idle"
    /\ IF mid \notin mailbox_registry
       THEN /\ log' = [log EXCEPT !.last =
                          Call("destroy", mid, None, "MailboxDoesNotExist")]
            /\ UNCHANGED <<mailbox_registry, name_registry, chan, task>>
       ELSE LET senders == chan[mid].send_tasks
                receivers == [i \in 1..Len(chan[mid].receive_tasks) |->
                                 [task |-> chan[mid].receive_tasks[i]]]
            IN  /\ name_registry' = name_registry
                /\ mailbox_registry' = mailbox_registry \ {mid}
                /\ chan' = [chan EXCEPT ![mid] =
                              [@ EXCEPT !.send_open = FALSE,
                                        !.send_tasks = <<>>,
                                        !.receive_tasks = <<>>]]
                /\ task' = [Resume(Resume(task, Woken(senders, "ClosedResourceError")),
                                   Woken(receivers, "EndOfChannel"))
                               EXCEPT ![t] = [@ EXCEPT !.pc = "destroy", !.mid = mid]]
                /\ log' = [log EXCEPT !.last = DestroyCall(mid)]
    /\ UNCHANGED <<supVars, deferVars, loopVars, appVars, openVars, genVars>>

\* destroy(mid) up to the checkpoint of `await wchan.aclose()`: the names of
\* mid are unregistered, mid is popped and the send half is closed, which
\* wakes the parked senders with ClosedResourceError and, no send half
\* being left, the parked receivers with EndOfChannel.
Destroy(t, mid) ==
    /\ task[t].pc = "idle"
    /\ IF mid \notin mailbox_registry
       THEN /\ log' = [log EXCEPT !.last =
                          Call("destroy", mid, None, "MailboxDoesNotExist")]
            /\ UNCHANGED <<mailbox_registry, name_registry, chan, task>>
       ELSE LET senders == chan[mid].send_tasks
                receivers == [i \in 1..Len(chan[mid].receive_tasks) |->
                                 [task |-> chan[mid].receive_tasks[i]]]
            IN  /\ name_registry' = UnregisterAll(mid)
                /\ mailbox_registry' = mailbox_registry \ {mid}
                /\ chan' = [chan EXCEPT ![mid] =
                              [@ EXCEPT !.send_open = FALSE,
                                        !.send_tasks = <<>>,
                                        !.receive_tasks = <<>>]]
                /\ task' = [Resume(Resume(task, Woken(senders, "ClosedResourceError")),
                                   Woken(receivers, "EndOfChannel"))
                               EXCEPT ![t] = [@ EXCEPT !.pc = "destroy", !.mid = mid]]
                /\ log' = [log EXCEPT !.last = DestroyCall(mid)]
    /\ UNCHANGED <<supVars, deferVars, loopVars, appVars, openVars, genVars>>

\* destroy(mid) from `await rchan.aclose()` on: the receive half is closed.
DestroyCloses(t) ==
    /\ task[t].pc = "destroy"
    /\ chan' = [chan EXCEPT ![task[t].mid] = [@ EXCEPT !.receive_open = FALSE]]
    /\ task' = [task EXCEPT ![t] = [@ EXCEPT !.pc = "idle", !.mid = None]]
    /\ UNCHANGED <<mailbox_registry, name_registry, log, supVars, deferVars, loopVars, appVars, openVars, genVars>>

\* A variant of send that returns at once when no receiver waits.
ChannelSend_NoWait(ch, t, value) ==
    IF ch.receive_tasks # <<>>
    THEN [chan |-> [ch EXCEPT !.receive_tasks = Tail(@)],
          woken |-> Head(ch.receive_tasks), parked |-> FALSE, delivered |-> <<value>>]
    ELSE [chan |-> ch, woken |-> None, parked |-> FALSE, delivered |-> <<>>]

\* wchan.send(value) by task t on channel ch: the first parked receiver takes
\* the value, or the sender parks. [chan, woken, parked, delivered]
ChannelSend(ch, t, value) ==
    IF ch.receive_tasks # <<>>
    THEN [chan |-> [ch EXCEPT !.receive_tasks = Tail(@)],
          woken |-> Head(ch.receive_tasks), parked |-> FALSE, delivered |-> <<value>>]
    ELSE [chan |-> [ch EXCEPT !.send_tasks = Append(@, [task |-> t, value |-> value])],
          woken |-> None, parked |-> TRUE, delivered |-> <<>>]

\* send(name_or_mid, message).
Send(t, name_or_mid) ==
    LET mid == Resolve(name_or_mid)
        message == [from |-> t, seq |-> log.sends + 1]
    IN  /\ task[t].pc = "idle"
        /\ log.sends < MaxSends
        /\ IF mid \notin mailbox_registry
           THEN /\ log' = [log EXCEPT !.last =
                              Call("send", name_or_mid, None, "MailboxDoesNotExist")]
                /\ UNCHANGED <<chan, task>>
           ELSE LET s == ChannelSend(chan[mid], t, message)
                IN  /\ chan' = [chan EXCEPT ![mid] = s.chan]
                    /\ task' = [t2 \in Tasks |->
                                  IF t2 = t
                                  THEN [task[t] EXCEPT !.pc = IF s.parked THEN "send" ELSE "idle",
                                                       !.result = IF s.parked THEN None ELSE "ok"]
                                  ELSE IF t2 = s.woken
                                  THEN [Idle EXCEPT !.result = "ok"]
                                  ELSE task[t2]]
                    /\ log' = [log EXCEPT
                                  !.sends = @ + 1,
                                  !.sent[mid] = IF s.parked THEN @ ELSE Append(@, message),
                                  !.received[mid] = @ \o s.delivered,
                                  !.last = Call("send", name_or_mid, None,
                                                IF s.parked THEN "parked" ELSE "ok")]
        /\ UNCHANGED <<mailbox_registry, name_registry, supVars, deferVars, loopVars, appVars, openVars, genVars>>

\* rchan.receive() by task t on channel ch: the value of the first parked
\* sender is taken, or the receiver parks.
ChannelReceive(ch, t) ==
    IF ch.send_tasks # <<>>
    THEN [chan |-> [ch EXCEPT !.send_tasks = Tail(@)],
          woken |-> Head(ch.send_tasks).task, parked |-> FALSE,
          delivered |-> <<Head(ch.send_tasks).value>>]
    ELSE [chan |-> [ch EXCEPT !.receive_tasks = Append(@, t)],
          woken |-> None, parked |-> TRUE, delivered |-> <<>>]

\* The timeouts receive is called with: none, one without on_timeout, one
\* with on_timeout. [timeout, on_timeout]
Timeouts == {<<FALSE, FALSE>>, <<TRUE, FALSE>>, <<TRUE, TRUE>>}

\* receive(mid, timeout, on_timeout) up to the end of rchan.receive() or to
\* the point where it waits.
Receive(t, mid, timeout, on_timeout) ==
    /\ task[t].pc = "idle"
    /\ IF mid \notin mailbox_registry
       THEN /\ log' = [log EXCEPT !.last =
                          Call("receive", mid, None, "MailboxDoesNotExist")]
            /\ UNCHANGED <<chan, task>>
       ELSE LET r == ChannelReceive(chan[mid], t)
            IN  /\ chan' = [chan EXCEPT ![mid] = r.chan]
                /\ task' = [t2 \in Tasks |->
                              IF t2 = t
                              THEN IF r.parked
                                   THEN [pc |-> "receive", mid |-> mid, result |-> None,
                                         timeout |-> timeout, on_timeout |-> on_timeout]
                                   ELSE [Idle EXCEPT !.result = "ok"]
                              ELSE IF t2 = r.woken
                              THEN [task[t2] EXCEPT !.pc = "idle", !.result = "ok"]
                              ELSE task[t2]]
                /\ log' = [log EXCEPT
                              !.sent[mid] = @ \o r.delivered,
                              !.received[mid] = @ \o r.delivered,
                              !.last = Call("receive", mid, None,
                                            IF r.parked THEN "parked" ELSE "ok")]
    /\ UNCHANGED <<mailbox_registry, name_registry, supVars, deferVars, loopVars, appVars, openVars, genVars>>

\* The sequence q without the task t.
Without(q, t) == SelectSeq(q, LAMBDA x : x # t)

\* A variant in which the receive that timed out stays on the channel.
TimeoutExpires_StaysParked(t) ==
    /\ task[t].pc = "receive" /\ task[t].timeout
    /\ task' = [task EXCEPT ![t] =
                  [Idle EXCEPT !.result = IF task[t].on_timeout THEN "on_timeout"
                                          ELSE "TooSlowError"]]
    /\ log' = [log EXCEPT !.last = Call("receive", task[t].mid, None, task'[t].result)]
    /\ UNCHANGED <<chan, mailbox_registry, name_registry, supVars, deferVars, loopVars, appVars, openVars, genVars>>

\* receive(mid, timeout, on_timeout): the deadline of trio.fail_after passes
\* while rchan.receive() waits. The wait is aborted, fail_after raises
\* TooSlowError, and receive raises it or returns the value of on_timeout().
TimeoutExpires(t) ==
    /\ task[t].pc = "receive" /\ task[t].timeout
    /\ chan' = [chan EXCEPT ![task[t].mid] =
                  [@ EXCEPT !.receive_tasks = Without(@, t)]]
    /\ task' = [task EXCEPT ![t] =
                  [Idle EXCEPT !.result = IF task[t].on_timeout THEN "on_timeout"
                                          ELSE "TooSlowError"]]
    /\ log' = [log EXCEPT !.last = Call("receive", task[t].mid, None, task'[t].result)]
    /\ UNCHANGED <<mailbox_registry, name_registry, supVars, deferVars, loopVars, appVars, openVars, genVars>>

MbxNext ==
    \/ Create
    \/ \E m \in Mids, n \in Names : Register(m, n)
    \/ \E n \in Names : Unregister(n)
    \/ \E t \in Tasks, m \in Mids : Destroy(t, m)
    \/ \E t \in Tasks : DestroyCloses(t)
    \/ \E t \in Tasks, x \in Names \cup Mids : Send(t, x)
    \/ \E t \in Tasks, m \in Mids : Receive(t, m, FALSE, FALSE)

MbxSpec == MbxInit /\ [][MbxNext]_vars

\* The calls on mailbox ids alone, receive with its timeouts.
RecvNext ==
    \/ Create
    \/ \E t \in Tasks, m \in Mids : Destroy(t, m)
    \/ \E t \in Tasks : DestroyCloses(t)
    \/ \E t \in Tasks, m \in Mids : Send(t, m)
    \/ \E t \in Tasks, m \in Mids, w \in Timeouts : Receive(t, m, w[1], w[2])
    \/ \E t \in Tasks : TimeoutExpires(t)

RecvSpec == MbxInit /\ [][RecvNext]_vars


----------------------------------------------------------------------------
(* mailbox.open: the scoped mailbox of a task.                             *)

\* The identifiers create() draws in OpenSpec.
OpenMailboxIds == <<"m1", "m2", "m3">>
OpenMids == {OpenMailboxIds[i] : i \in 1..Len(OpenMailboxIds)}
\* The names the blocks are opened with and register.
OpenNames == {"a", "b"}

\* A task outside any block. pc: "out", "body" (after the yield), "waiting"
\* (the body waits in receive(mid)), "closing" (destroy(mid) of the finally
\* clause is past wchan.aclose()). mid and name are those of the last block;
\* exc is the exception on its way out of the block ("ok" for none); held
\* is the set of names the mailbox had when the block ended.
ScopeOut == [pc |-> "out", mid |-> None, name |-> None, exc |-> None,
             cancelled |-> FALSE, held |-> {}]

OpenInit ==
    /\ mailbox_registry = {}
    /\ name_registry = [n \in OpenNames |-> None]
    /\ chan = [m \in OpenMids |-> NoChannel]
    /\ scope = [t \in Tasks |-> ScopeOut]
    /\ task = <<>> /\ log = <<>>
    /\ SupIdle /\ LoopIdle /\ AppIdle /\ DeferIdle /\ GenIdle

\* The names registered to mid.
NamesOf(mid) == {n \in DOMAIN name_registry : name_registry[n] = mid}

\* The sync part of destroy(mid) for a mid in the registry, and the close
\* of wchan: the names of mid go, mid goes, the send half is closed and
\* the waiting receivers are gone from the channel.
Destroyed(mid) ==
    /\ name_registry' = [n \in DOMAIN name_registry |->
                            IF name_registry[n] = mid THEN None ELSE name_registry[n]]
    /\ mailbox_registry' = mailbox_registry \ {mid}
    /\ chan' = [chan EXCEPT ![mid] = [@ EXCEPT !.send_open = FALSE,
                                               !.send_tasks = <<>>,
                                               !.receive_tasks = <<>>]]

\* A variant in which register runs before the try: when it raises, the
\* mailbox that create() made stays in the registry.
OpenEnter_NoCleanup(t, name) ==
    LET n == Cardinality({m \in OpenMids : chan[m].created})
        mid == OpenMailboxIds[n + 1]
    IN  /\ scope[t].pc = "out"
        /\ n < Len(OpenMailboxIds)
        /\ chan' = [chan EXCEPT ![mid] = NewChannel]
        /\ mailbox_registry' = mailbox_registry \cup {mid}
        /\ IF name # None /\ name_registry[name] # None
           THEN /\ scope' = [scope EXCEPT ![t] =
                               [ScopeOut EXCEPT !.pc = "closing", !.mid = mid,
                                                !.name = name,
                                                !.exc = "NameAlreadyExist"]]
                /\ UNCHANGED name_registry
           ELSE /\ name_registry' = IF name = None THEN name_registry
                                    ELSE [name_registry EXCEPT ![name] = mid]
                /\ scope' = [scope EXCEPT ![t] =
                               [ScopeOut EXCEPT !.pc = "body", !.mid = mid,
                                                !.name = name]]
        /\ UNCHANGED <<task, log, supVars, deferVars, loopVars, appVars, genVars>>

\* `async with mailbox.open(name)` is entered: create(), register(mid, name)
\* when a name is given, then the yield. When register raises, the finally
\* clause runs destroy(mid) up to the checkpoint of wchan.aclose().
OpenEnter(t, name) ==
    LET n == Cardinality({m \in OpenMids : chan[m].created})
        mid == OpenMailboxIds[n + 1]
    IN  /\ scope[t].pc = "out"
        /\ n < Len(OpenMailboxIds)
        /\ IF name # None /\ name_registry[name] # None
           THEN /\ chan' = [chan EXCEPT ![mid] = [NewChannel EXCEPT !.send_open = FALSE]]
                /\ scope' = [scope EXCEPT ![t] =
                               [ScopeOut EXCEPT !.pc = "closing", !.mid = mid,
                                                !.name = name,
                                                !.exc = "NameAlreadyExist"]]
                /\ UNCHANGED <<mailbox_registry, name_registry>>
           ELSE /\ chan' = [chan EXCEPT ![mid] = NewChannel]
                /\ mailbox_registry' = mailbox_registry \cup {mid}
                /\ name_registry' = IF name = None THEN name_registry
                                    ELSE [name_registry EXCEPT ![name] = mid]
                /\ scope' = [scope EXCEPT ![t] =
                               [ScopeOut EXCEPT !.pc = "body", !.mid = mid,
                                                !.name = name]]
        /\ UNCHANGED <<task, log, supVars, deferVars, loopVars, appVars, genVars>>

\* The body calls register(mid, name) on its own mailbox; a taken name
\* raises NameAlreadyExist in the body, and the finally clause runs.
BodyRegisters(t, name) ==
    /\ scope[t].pc = "body"
    /\ IF name_registry[name] # None
       THEN /\ Destroyed(scope[t].mid)
            /\ scope' = [scope EXCEPT ![t] =
                           [@ EXCEPT !.pc = IF scope[t].cancelled THEN "out" ELSE "closing",
                                     !.exc = IF scope[t].cancelled THEN "Cancelled"
                                             ELSE "NameAlreadyExist",
                                     !.held = NamesOf(scope[t].mid)]]
       ELSE /\ name_registry' = [name_registry EXCEPT ![name] = scope[t].mid]
            /\ UNCHANGED <<mailbox_registry, chan, scope>>
    /\ UNCHANGED <<task, log, supVars, deferVars, loopVars, appVars, genVars>>

\* The body calls receive(mid) on its own mailbox and waits: nobody sends.
BodyReceives(t) ==
    /\ scope[t].pc = "body"
    /\ ~scope[t].cancelled
    /\ chan' = [chan EXCEPT ![scope[t].mid] =
                  [@ EXCEPT !.receive_tasks = Append(@, t)]]
    /\ scope' = [scope EXCEPT ![t] = [@ EXCEPT !.pc = "waiting"]]
    /\ UNCHANGED <<mailbox_registry, name_registry, task, log, supVars, deferVars, loopVars, appVars, genVars>>

\* The task of the block is cancelled. Cancelled is raised at its next
\* checkpoint.
CancelTask(t) ==
    /\ scope[t].pc \in {"body", "waiting", "closing"}
    /\ ~scope[t].cancelled
    /\ scope' = [scope EXCEPT ![t] = [@ EXCEPT !.cancelled = TRUE]]
    /\ UNCHANGED <<mailbox_registry, name_registry, chan, task, log,
                   supVars, deferVars, loopVars, appVars, genVars>>

\* A variant of the block without try/finally: destroy(mid) runs only
\* when the body returns.
ScopeExit_NoFinally(t, how) ==
    /\ \/ scope[t].pc = "body" /\ how \in {"ok", "Error"}
       \/ scope[t].pc \in {"body", "waiting"} /\ scope[t].cancelled /\ how = "Cancelled"
    /\ IF how = "ok"
       THEN /\ Destroyed(scope[t].mid)
            /\ scope' = [scope EXCEPT ![t] =
                           [@ EXCEPT !.pc = "closing", !.exc = how,
                                     !.held = NamesOf(scope[t].mid)]]
       ELSE /\ scope' = [scope EXCEPT ![t] =
                           [@ EXCEPT !.pc = "out", !.exc = how,
                                     !.held = NamesOf(scope[t].mid)]]
            /\ UNCHANGED <<mailbox_registry, name_registry, chan>>
    /\ UNCHANGED <<task, log, supVars, deferVars, loopVars, appVars, genVars>>

\* The body ends: it returns ("ok"), raises ("Error"), or Cancelled is
\* raised at a checkpoint of it, receive(mid) included. The finally clause
\* runs destroy(mid) up to the checkpoint of wchan.aclose(), where a
\* cancelled task gets Cancelled and never reaches rchan.aclose().
ScopeExit(t, how) ==
    /\ \/ scope[t].pc = "body" /\ how \in {"ok", "Error"}
       \/ scope[t].pc \in {"body", "waiting"} /\ scope[t].cancelled /\ how = "Cancelled"
    /\ Destroyed(scope[t].mid)
    /\ scope' = [scope EXCEPT ![t] =
                   [@ EXCEPT !.pc = IF scope[t].cancelled THEN "out" ELSE "closing",
                             !.exc = IF scope[t].cancelled THEN "Cancelled" ELSE how,
                             !.held = NamesOf(scope[t].mid)]]
    /\ UNCHANGED <<task, log, supVars, deferVars, loopVars, appVars, genVars>>

\* destroy(mid) resumes after wchan.aclose(): Cancelled if the task was
\* cancelled meanwhile, else rchan.aclose(), and the block is left.
ScopeCloses(t) ==
    /\ scope[t].pc = "closing"
    /\ IF scope[t].cancelled
       THEN /\ scope' = [scope EXCEPT ![t] = [@ EXCEPT !.pc = "out", !.exc = "Cancelled"]]
            /\ UNCHANGED chan
       ELSE /\ scope' = [scope EXCEPT ![t] = [@ EXCEPT !.pc = "out"]]
            /\ chan' = [chan EXCEPT ![scope[t].mid] = [@ EXCEPT !.receive_open = FALSE]]
    /\ UNCHANGED <<mailbox_registry, name_registry, task, log, supVars, deferVars, loopVars, appVars, genVars>>

OpenNext ==
    \/ \E t \in Tasks, n \in OpenNames \cup {None} : OpenEnter(t, n)
    \/ \E t \in Tasks, n \in OpenNames : BodyRegisters(t, n)
    \/ \E t \in Tasks : BodyReceives(t)
    \/ \E t \in Tasks : CancelTask(t)
    \/ \E t \in Tasks, how \in {"ok", "Error", "Cancelled"} : ScopeExit(t, how)
    \/ \E t \in Tasks : ScopeCloses(t)

OpenSpec == OpenInit /\ [][OpenNext]_vars

----------------------------------------------------------------------------
(* Properties of mailbox.open, checked under OpenSpec.                     *)

\* C11: once a task has left its mailbox.open block, whether the body
\* returned, raised or was cancelled, the mailbox of the block is not in the
\* mailbox registry and no name is registered to it.
C11_ScopedRelease ==
    \A t \in Tasks :
        (scope[t].pc \in {"out", "closing"} /\ scope[t].mid # None) =>
            /\ scope[t].mid \notin mailbox_registry
            /\ NamesOf(scope[t].mid) = {}

\* A block whose mailbox held two names was left by cancellation while its
\* body waited in receive: the receive half was never closed.
C11_Witness ==
    \E t \in Tasks :
        /\ scope[t].pc = "out" /\ scope[t].exc = "Cancelled"
        /\ Cardinality(scope[t].held) = 2
        /\ chan[scope[t].mid].receive_open

\* C12: open(name) while a block holds name fails with NameAlreadyExist,
\* leaves both registries as they were and no mailbox behind; open(name)
\* while name is free succeeds and registers name to the new mailbox; no
\* two blocks hold one name; and when a block ends its name is free again.
C12_ConcurrentOpen ==
    [][/\ \A t \in Tasks :
             (scope[t].pc = "out" /\ scope'[t].pc # "out" /\ scope'[t].name # None) =>
                 IF name_registry[scope'[t].name] # None
                 THEN /\ scope'[t].pc = "closing"
                      /\ scope'[t].exc = "NameAlreadyExist"
                      /\ scope'[t].mid \notin mailbox_registry'
                      /\ UNCHANGED <<mailbox_registry, name_registry>>
                 ELSE /\ scope'[t].pc = "body"
                      /\ scope'[t].mid \in mailbox_registry' \ mailbox_registry
                      /\ name_registry'[scope'[t].name] = scope'[t].mid
       /\ \A t \in Tasks :
             (scope[t].pc \in {"body", "waiting"} /\ scope'[t].pc \in {"closing", "out"}
              /\ scope[t].name # None) => name_registry'[scope[t].name] = None
       /\ \A t1, t2 \in Tasks :
             (/\ t1 # t2 /\ scope'[t1].pc \in {"body", "waiting"}
              /\ scope'[t2].pc \in {"body", "waiting"} /\ scope'[t1].name # None)
                 => scope'[t1].name # scope'[t2].name]_vars

\* A third open("a") succeeded after the block that held "a" ended; the
\* open("a") of the other task had failed while it was held.
C12_Witness ==
    \E t1, t2 \in Tasks :
        /\ scope[t2].pc = "out" /\ scope[t2].exc = "NameAlreadyExist"
        /\ scope[t2].name = "a" /\ scope[t2].mid = "m2"
        /\ scope[t1].pc = "body" /\ scope[t1].name = "a" /\ scope[t1].mid = "m3"
        /\ name_registry["a"] = "m3" /\ mailbox_registry = {"m3"}

\* C31 as stated: every id in the mailbox registry has a live send half and
\* a live receive half, and once destroy(mid) is over, on whatever path,
\* the cancellation of the task that runs it at the exit of its open block
\* included, the id is gone and both halves are closed.
C31_Original ==
    /\ \A m \in mailbox_registry :
          chan[m].created /\ chan[m].send_open /\ chan[m].receive_open
    /\ \A t \in Tasks :
          (scope[t].pc = "out" /\ scope[t].mid # None) =>
              /\ scope[t].mid \notin mailbox_registry
              /\ ~chan[scope[t].mid].send_open
              /\ ~chan[scope[t].mid].receive_open

----------------------------------------------------------------------------
(* Properties of the mailbox registry, checked under MbxSpec (C8 to C13)   *)
(* and under RecvSpec (C14, C15).                                          *)

\* C8: the messages one sender sent to a mailbox, by name or by id, are
\* received from it in the order of the sends, none lost and none twice:
\* what receive returned from a mailbox is what send delivered to it, and
\* the messages of one sender appear in it in the order they were sent.
C8_Fifo ==
    \A m \in Mids :
        /\ log.received[m] = log.sent[m]
        /\ \A i, j \in 1..Len(log.received[m]) :
              (i < j /\ log.received[m][i].from = log.received[m][j].from)
                  => log.received[m][i].seq < log.received[m][j].seq

C8_Witness ==
    \E m \in Mids, t \in Tasks :
        log.received[m] = <<[from |-> t, seq |-> 1], [from |-> t, seq |-> 2]>>

\* The step is a call of register(mid, name).
RegisterStep(mid, name) ==
    /\ log'.last # log.last
    /\ log'.last.op = "register" /\ log'.last.target = mid /\ log'.last.name = name

\* C9 as stated: register(mid, name) on a taken name fails with
\* NameAlreadyExist and leaves both registries as they were.
C9_Original ==
    [][\A mid \in Mids, name \in Names :
          (RegisterStep(mid, name) /\ name_registry[name] # None) =>
              /\ log'.last.result = "NameAlreadyExist"
              /\ UNCHANGED <<name_registry, mailbox_registry>>]_vars

\* C9 amended: a name registered to a mailbox is never handed to another
\* one while it is registered; register(mid, name) on a taken name leaves
\* both registries as they were and fails, with NameAlreadyExist when mid is
\* a mailbox and with MailboxDoesNotExist when it is not.
C9_NameUniqueness ==
    [][/\ \A name \in Names :
             name_registry[name] # None =>
                 name_registry'[name] \in {name_registry[name], None}
       /\ \A mid \in Mids, name \in Names :
             (RegisterStep(mid, name) /\ name_registry[name] # None) =>
                 /\ log'.last.result = IF mid \in mailbox_registry
                                       THEN "NameAlreadyExist"
                                       ELSE "MailboxDoesNotExist"
                 /\ UNCHANGED <<name_registry, mailbox_registry>>]_vars

C9_Witness ==
    /\ log.last.op = "register" /\ log.last.result = "NameAlreadyExist"
    /\ log.last.target \in mailbox_registry
    /\ name_registry[log.last.name] \in mailbox_registry \ {log.last.target}

\* C39: at every point where another task can run, every name of the name
\* registry maps to a mailbox id that is in the mailbox registry.
C39_NoDanglingNames ==
    \A n \in DOMAIN name_registry :
        name_registry[n] # None => name_registry[n] \in mailbox_registry

\* A task is parked in destroy, at the checkpoint after the send half was
\* closed: the two names of its mailbox are gone while a name of the other
\* mailbox is still registered.
C39_Witness ==
    /\ \E t \in Tasks : task[t].pc = "destroy" /\ task[t].mid = log.last.target
    /\ log.last.op = "destroy" /\ Cardinality(log.last.names) = 2
    /\ \A n \in log.last.names : name_registry[n] = None
    /\ \E n \in Names : name_registry[n] \in mailbox_registry

\* The step is a call of destroy(mid).
DestroyStep(mid) ==
    /\ log'.last # log.last
    /\ log'.last.op = "destroy" /\ log'.last.target = mid

\* C10: destroy(mid) of a mailbox removes each of its names and mid itself
\* and leaves the names of the other mailboxes, their registry entries and
\* their channels alone; destroy of an unknown id fails with
\* MailboxDoesNotExist and changes nothing.
C10_Destroy ==
    [][\A mid \in Mids :
          DestroyStep(mid) =>
              IF mid \in mailbox_registry
              THEN /\ log'.last.result = "ok"
                   /\ \A n \in Names :
                         name_registry'[n] = IF name_registry[n] = mid THEN None
                                             ELSE name_registry[n]
                   /\ mailbox_registry' = mailbox_registry \ {mid}
                   /\ \A m \in Mids \ {mid} : chan'[m] = chan[m]
              ELSE /\ log'.last.result = "MailboxDoesNotExist"
                   /\ UNCHANGED <<mailbox_registry, name_registry, chan, task>>]_vars

C10_Witness ==
    /\ log.last.op = "destroy" /\ log.last.result = "ok"
    /\ Cardinality(log.last.names) = 2
    /\ \E n \in Names : name_registry[n] \in mailbox_registry


\* The step is a call of send(x, message).
SendStep(x) ==
    /\ log'.last # log.last \/ log'.sends # log.sends
    /\ log'.last.op = "send" /\ log'.last.target = x

\* C13: send(x, message) goes to the mailbox registered under the name x
\* when there is one, whether or not x is also a mailbox id, and else to
\* the mailbox with id x: that mailbox's channel takes the message (a
\* waiting receive gets it or the sender waits on it) and no other does.
\* With no such mailbox the send fails with MailboxDoesNotExist and nothing
\* is delivered or queued.
C13_SendResolves ==
    [][\A x \in Names \cup Mids :
          SendStep(x) =>
              LET mid == IF x \in Names /\ name_registry[x] # None
                         THEN name_registry[x] ELSE x
              IN  IF mid \in mailbox_registry
                  THEN /\ log'.last.result \in {"ok", "parked"}
                       /\ \/ Len(chan'[mid].send_tasks) = Len(chan[mid].send_tasks) + 1
                          \/ Len(log'.received[mid]) = Len(log.received[mid]) + 1
                       /\ \A m \in Mids \ {mid} :
                             chan'[m] = chan[m] /\ log'.received[m] = log.received[m]
                  ELSE /\ log'.last.result = "MailboxDoesNotExist"
                       /\ UNCHANGED <<chan, task>>
                       /\ log'.received = log.received /\ log'.sent = log.sent]_vars

\* A send to "m1" was received from the mailbox m2 that holds the name "m1",
\* the mailbox with id m1 being there and having received nothing.
C13_Witness ==
    /\ log.last.op = "send" /\ log.last.target = "m1" /\ log.last.result = "ok"
    /\ name_registry["m1"] = "m2" /\ "m1" \in mailbox_registry
    /\ Len(log.received["m2"]) = 1 /\ log.received["m1"] = <<>>


\* The parked senders of all the channels, with their messages.
Queued == [m \in Mids |-> chan[m].send_tasks]

\* C14: a receive(mid, timeout, on_timeout) that waits ends with the next
\* message sent to mid when one is sent before the deadline; when the
\* deadline passes first it ends with the value of on_timeout() if
\* on_timeout was given and with TooSlowError if not, it no longer waits on
\* the channel, and no message was taken: what was delivered and what
\* senders still hold is as before. A receive without timeout never ends
\* that way.
C14_ReceiveTimeout ==
    [][\A t \in Tasks :
          (task[t].pc = "receive" /\ task'[t].pc # "receive") =>
              LET mid == task[t].mid
              IN  \/ /\ task'[t].result = "ok"
                     /\ Len(log'.received[mid]) = Len(log.received[mid]) + 1
                  \/ /\ task'[t].result = "EndOfChannel"
                     /\ mid \notin mailbox_registry'
                  \/ /\ task[t].timeout
                     /\ task'[t].result = IF task[t].on_timeout THEN "on_timeout"
                                          ELSE "TooSlowError"
                     /\ \A i \in 1..Len(chan'[mid].receive_tasks) :
                           chan'[mid].receive_tasks[i] # t
                     /\ log'.received = log.received /\ log'.sent = log.sent
                     /\ Queued' = Queued]_vars

\* A receive with on_timeout has timed out, and the message sent to the
\* mailbox after that waits with its sender.
C14_Witness ==
    \E t \in Tasks, m \in Mids :
        /\ task[t].pc = "idle" /\ task[t].result = "on_timeout"
        /\ log.last = Call("send", m, None, "parked")
        /\ Len(chan[m].send_tasks) = 1 /\ chan[m].receive_tasks = <<>>
        /\ log.received[m] = <<>>

\* C15 as stated: a receive ends with MailboxDoesNotExist both when mid is
\* not a mailbox at the call and when mid is destroyed while it waits.
C15_Original ==
    [][/\ \A mid \in Mids :
             (/\ log'.last # log.last /\ log'.last.op = "receive"
              /\ log'.last.target = mid /\ mid \notin mailbox_registry)
                 => log'.last.result = "MailboxDoesNotExist"
       /\ \A t \in Tasks, mid \in Mids :
             (/\ task[t].pc = "receive" /\ task[t].mid = mid
              /\ mid \in mailbox_registry /\ mid \notin mailbox_registry')
                 => /\ task'[t].pc = "idle"
                    /\ task'[t].result = "MailboxDoesNotExist"]_vars


----------------------------------------------------------------------------
(* gen_server.py: a generic server running the key-value store of the      *)
(* tests (one key), and the tasks that call it.                            *)

Callers == {"c1", "c2"}
\* The payloads of the calls: get and set of the key, a request no case of
\* handle_call matches, and the special calls of the sample module.
Payloads == {"api_get", "api_set_v1", "api_set_v2", "api_clear",
             "special_call_delayed", "special_call_timedout",
             "special_call_stopped", "special_call_failure"}

\* What travels on a reply channel: a value or an exception value, with the
\* number of the call it was produced for (re, for the properties). The
\* state of a background task: st, its caller c, and the number of requests
\* the server had handled when its reply was taken (for the properties).
Val(v) == [exc |-> FALSE, val |-> v, re |-> 0]
Exc(e) == [exc |-> TRUE, val |-> e, re |-> 0]
For(k, p) == [p EXCEPT !.re = k]
NoValue == Val("pending")

\* A variant whose set replies with the value it stores.
HandleCall_SetRepliesNew(message, state) ==
    LET out(o, p, r, st, sp) ==
            [outcome |-> o, payload |-> p, reason |-> r, state |-> st, spawn |-> sp]
    IN  CASE message = "api_get" -> out("Reply", Val(state), None, state, FALSE)
          [] message = "api_set_v1" -> out("Reply", Val("v1"), None, "v1", FALSE)
          [] message = "api_set_v2" -> out("Reply", Val("v2"), None, "v2", FALSE)
          [] message = "special_call_delayed" -> out("NoReply", NoValue, None, state, TRUE)
          [] message = "special_call_timedout" -> out("NoReply", NoValue, None, state, FALSE)
          [] message = "special_call_stopped" -> out("Stop", NoValue, None, state, FALSE)
          [] message = "special_call_failure" ->
                 out("Stop", NoValue, "RuntimeError", state, FALSE)
          [] OTHER -> out("Reply", Exc("NotImplementedError"), None, state, FALSE)

\* handle_call(message, caller, test_state) of sample_kvstore: the outcome,
\* the new state, and whether a slow_task was started to reply later.
HandleCall(message, state) ==
    LET out(o, p, r, st, sp) ==
            [outcome |-> o, payload |-> p, reason |-> r, state |-> st, spawn |-> sp]
    IN  CASE message = "api_get" -> out("Reply", Val(state), None, state, FALSE)
          [] message = "api_set_v1" -> out("Reply", Val(state), None, "v1", FALSE)
          [] message = "api_set_v2" -> out("Reply", Val(state), None, "v2", FALSE)
          [] message = "special_call_delayed" -> out("NoReply", NoValue, None, state, TRUE)
          [] message = "special_call_timedout" -> out("NoReply", NoValue, None, state, FALSE)
          [] message = "special_call_stopped" -> out("Stop", NoValue, None, state, FALSE)
          [] message = "special_call_failure" ->
                 out("Stop", NoValue, "RuntimeError", state, FALSE)
          [] OTHER -> out("Reply", Exc("NotImplementedError"), None, state, FALSE)

NoMessage == [k |-> 0, c |-> None, payload |-> None]
\* _CallMessage(source, payload) of call number k by caller c; source is the
\* send half of the reply channel of that call.
CallMessage(k, c, payload) == [k |-> k, c |-> c, payload |-> payload]

\* A caller that has made no call. pc: "idle", "send" (waits in
\* mailbox.send), "sent" (mailbox.send returned), "wait" (waits in
\* rchan.receive), "done". wchan, rchan: the half is open. sender, value: who
\* waits in wchan.send ("server", "task" or None), and with what.
NoCall == [pc |-> "idle", k |-> 0, payload |-> None, timeout |-> FALSE,
           wchan |-> FALSE, rchan |-> FALSE, sender |-> None, value |-> NoValue,
           result |-> NoValue]

GenInit ==
    /\ gs = [pc |-> "receive", state |-> None, new_state |-> None,
             msg |-> NoMessage, cont |-> "loop", reason |-> None,
             terminated_with |-> "not called", did_raise |-> "running"]
    /\ mbox = <<>>
    /\ calls = [c \in Callers |-> NoCall]
    /\ bg = [k \in 1..MaxCalls |-> [st |-> "none", c |-> None, handled |-> 0]]
    /\ glog = [made |-> 0, handled |-> <<>>]
    /\ SupIdle /\ LoopIdle /\ AppIdle /\ DeferIdle /\ MbxIdle /\ OpenIdle

\* The send half of the reply channel of call k of caller c is open.
SourceOpen(c, k) == calls[c].k = k /\ calls[c].wchan

\* call returns or raises: result, and the finally clause closes both halves.
Returned_(cl, value) ==
    [cl EXCEPT !.pc = "done", !.result = value, !.wchan = FALSE, !.rchan = FALSE,
               !.sender = None, !.value = NoValue]

\* A variant in which the message of a new call is taken by a server that
\* is still waiting to hand over the reply of the call before.
CallSends_TakenWhileReplying(c, payload, timeout) ==
    LET k == glog.made + 1
        new == [NoCall EXCEPT !.k = k, !.payload = payload, !.timeout = timeout,
                              !.wchan = TRUE, !.rchan = TRUE]
    IN  /\ calls[c].pc \in {"idle", "done"}
        /\ glog.made < MaxCalls
        /\ glog' = [glog EXCEPT !.made = k]
        /\ IF gs.pc = "exited"
           THEN /\ calls' = [calls EXCEPT ![c] =
                               [new EXCEPT !.pc = "done",
                                           !.result = Exc("MailboxDoesNotExist")]]
                /\ UNCHANGED <<gs, mbox>>
           ELSE IF gs.pc \in {"receive", "reply"}
           THEN /\ calls' = [calls EXCEPT ![c] = [new EXCEPT !.pc = "sent"]]
                /\ gs' = [gs EXCEPT !.pc = "handle", !.msg = CallMessage(k, c, payload)]
                /\ UNCHANGED mbox
           ELSE /\ calls' = [calls EXCEPT ![c] = [new EXCEPT !.pc = "send"]]
                /\ mbox' = Append(mbox, CallMessage(k, c, payload))
                /\ UNCHANGED gs
        /\ UNCHANGED <<bg, supVars, deferVars, loopVars, appVars, mbxVars, openVars>>

\* call(name_or_mid, payload, timeout) up to the end of mailbox.send or to
\* the point where it waits: with no mailbox under the name the send raises
\* MailboxDoesNotExist; a server waiting in mailbox.receive takes the message.
CallSends(c, payload, timeout) ==
    LET k == glog.made + 1
        new == [NoCall EXCEPT !.k = k, !.payload = payload, !.timeout = timeout,
                              !.wchan = TRUE, !.rchan = TRUE]
    IN  /\ calls[c].pc \in {"idle", "done"}
        /\ glog.made < MaxCalls
        /\ glog' = [glog EXCEPT !.made = k]
        /\ IF gs.pc = "exited"
           THEN /\ calls' = [calls EXCEPT ![c] =
                               [new EXCEPT !.pc = "done",
                                           !.result = Exc("MailboxDoesNotExist")]]
                /\ UNCHANGED <<gs, mbox>>
           ELSE IF gs.pc = "receive"
           THEN /\ calls' = [calls EXCEPT ![c] = [new EXCEPT !.pc = "sent"]]
                /\ gs' = [gs EXCEPT !.pc = "handle", !.msg = CallMessage(k, c, payload)]
                /\ UNCHANGED mbox
           ELSE /\ calls' = [calls EXCEPT ![c] = [new EXCEPT !.pc = "send"]]
                /\ mbox' = Append(mbox, CallMessage(k, c, payload))
                /\ UNCHANGED gs
        /\ UNCHANGED <<bg, supVars, deferVars, loopVars, appVars, mbxVars, openVars>>


\* _loop has a call message: handle_call runs, and _handle_call acts on its
\* outcome. Reply and Stop send on the source, `await reply(source, ...)`:
\* a closed source raises ClosedResourceError in the loop, a caller waiting
\* in rchan.receive takes the value, and else the server waits in the send.
\* NoReply sends nothing; the slow_task of the delayed call is started.
ServerHandles ==
    /\ gs.pc = "handle"
    /\ LET m == gs.msg
           c == m.c
           h == HandleCall(m.payload, gs.state)
           value == For(m.k, IF h.outcome = "Stop" THEN Exc("GenServerExited")
                             ELSE h.payload)
           cont == IF h.outcome # "Stop" THEN "loop"
                   ELSE IF h.reason # None THEN "raise" ELSE "stop"
       IN  /\ glog' = [glog EXCEPT !.handled = Append(@, m)]
           /\ IF h.outcome = "NoReply"
              THEN /\ gs' = [gs EXCEPT !.pc = "continue", !.state = h.state,
                                       !.cont = "loop", !.msg = NoMessage]
                   /\ bg' = IF h.spawn
                            THEN [bg EXCEPT ![m.k] = [@ EXCEPT !.st = "scheduled", !.c = c]]
                            ELSE bg
                   /\ UNCHANGED calls
              ELSE IF ~SourceOpen(c, m.k)
              THEN /\ gs' = [gs EXCEPT !.pc = "continue", !.cont = "raise",
                                       !.reason = "ClosedResourceError",
                                       !.msg = NoMessage]
                   /\ UNCHANGED <<calls, bg>>
              ELSE IF calls[c].pc = "wait"
              THEN /\ calls' = [calls EXCEPT ![c] = Returned_(@, value)]
                   /\ gs' = [gs EXCEPT !.pc = "continue", !.state = h.state,
                                       !.cont = cont, !.reason = h.reason,
                                       !.msg = NoMessage]
                   /\ UNCHANGED bg
              ELSE /\ calls' = [calls EXCEPT ![c] =
                                  [@ EXCEPT !.sender = "server", !.value = value]]
                   /\ gs' = [gs EXCEPT !.pc = "reply", !.new_state = h.state,
                                       !.cont = cont, !.reason = h.reason]
                   /\ UNCHANGED bg
    /\ UNCHANGED <<mbox, supVars, deferVars, loopVars, appVars, mbxVars, openVars>>

\* call enters rchan.receive(): it takes the value of the sender waiting on
\* its channel, which resumes, or it waits.
CallReceives(c) ==
    /\ calls[c].pc = "sent"
    /\ IF calls[c].sender = None
       THEN /\ calls' = [calls EXCEPT ![c] = [@ EXCEPT !.pc = "wait"]]
            /\ UNCHANGED <<gs, bg>>
       ELSE /\ calls' = [calls EXCEPT ![c] = Returned_(@, calls[c].value)]
            /\ IF calls[c].sender = "server"
               THEN /\ gs' = [gs EXCEPT !.pc = "continue", !.state = gs.new_state,
                                        !.msg = NoMessage]
                    /\ UNCHANGED bg
               ELSE /\ bg' = [bg EXCEPT ![calls[c].k] =
                                 [@ EXCEPT !.st = "done",
                                           !.handled = Len(glog.handled)]]
                    /\ UNCHANGED gs
    /\ UNCHANGED <<mbox, glog, supVars, deferVars, loopVars, appVars, mbxVars, openVars>>

\* The deadline of call's trio.fail_after passes before a value was taken:
\* call raises TooSlowError, and its finally clause closes both halves. A
\* sender waiting on the send half is woken with ClosedResourceError.
CallTimesOut(c) ==
    /\ calls[c].pc \in {"sent", "wait"}
    /\ calls[c].timeout
    /\ calls' = [calls EXCEPT ![c] = Returned_(@, Exc("TooSlowError"))]
    /\ gs' = IF calls[c].sender = "server"
             THEN [gs EXCEPT !.pc = "continue", !.cont = "raise",
                             !.reason = "ClosedResourceError", !.msg = NoMessage]
             ELSE gs
    /\ bg' = IF calls[c].sender = "task"
             THEN [bg EXCEPT ![calls[c].k] = [@ EXCEPT !.st = "ClosedResourceError"]]
             ELSE bg
    /\ UNCHANGED <<mbox, glog, supVars, deferVars, loopVars, appVars, mbxVars, openVars>>

\* A variant in which the slow_task replies to whoever waits for a reply.
BgReplies_AnyWaiting(k) ==
    /\ bg[k].st = "scheduled"
    /\ \E c \in Callers :
          /\ calls[c].pc = "wait"
          /\ calls' = [calls EXCEPT ![c] = Returned_(@, For(k, Val("done")))]
    /\ bg' = [bg EXCEPT ![k] = [@ EXCEPT !.st = "done", !.handled = Len(glog.handled)]]
    /\ UNCHANGED <<gs, mbox, glog, supVars, deferVars, loopVars, appVars, mbxVars, openVars>>

\* The slow_task started for call k runs `await gen_server.reply(caller,
\* "done")`.
BgReplies(k) ==
    LET c == bg[k].c
    IN  /\ bg[k].st = "scheduled"
        /\ IF ~SourceOpen(c, k)
           THEN /\ bg' = [bg EXCEPT ![k] = [@ EXCEPT !.st = "ClosedResourceError"]]
                /\ UNCHANGED calls
           ELSE IF calls[c].pc = "wait"
           THEN /\ calls' = [calls EXCEPT ![c] = Returned_(@, For(k, Val("done")))]
                /\ bg' = [bg EXCEPT ![k] = [@ EXCEPT !.st = "done",
                                                     !.handled = Len(glog.handled)]]
           ELSE /\ calls' = [calls EXCEPT ![c] =
                               [@ EXCEPT !.sender = "task",
                                         !.value = For(k, Val("done"))]]
                /\ bg' = [bg EXCEPT ![k] = [@ EXCEPT !.st = "parked"]]
        /\ UNCHANGED <<gs, mbox, glog, supVars, deferVars, loopVars, appVars, mbxVars, openVars>>

\* A variant that calls terminate without the reason.
ServerContinues_TerminateNone ==
    /\ gs.pc = "continue"
    /\ IF gs.cont = "loop"
       THEN IF mbox # <<>>
            THEN /\ gs' = [gs EXCEPT !.pc = "handle", !.msg = Head(mbox)]
                 /\ mbox' = Tail(mbox)
                 /\ calls' = [calls EXCEPT ![Head(mbox).c] = [@ EXCEPT !.pc = "sent"]]
            ELSE /\ gs' = [gs EXCEPT !.pc = "receive"]
                 /\ UNCHANGED <<mbox, calls>>
       ELSE /\ gs' = [gs EXCEPT !.pc = "closing", !.terminated_with = None]
            /\ UNCHANGED <<mbox, calls>>
    /\ UNCHANGED <<bg, glog, supVars, deferVars, loopVars, appVars, mbxVars, openVars>>

\* _loop after a message. To loop, mailbox.receive takes the message of the
\* first caller waiting in mailbox.send, or waits. Else the loop ends or
\* raises, and terminate(reason, state) is called.
ServerContinues ==
    /\ gs.pc = "continue"
    /\ IF gs.cont = "loop"
       THEN IF mbox # <<>>
            THEN /\ gs' = [gs EXCEPT !.pc = "handle", !.msg = Head(mbox)]
                 /\ mbox' = Tail(mbox)
                 /\ calls' = [calls EXCEPT ![Head(mbox).c] = [@ EXCEPT !.pc = "sent"]]
            ELSE /\ gs' = [gs EXCEPT !.pc = "receive"]
                 /\ UNCHANGED <<mbox, calls>>
       ELSE /\ gs' = [gs EXCEPT !.pc = "closing", !.terminated_with = gs.reason]
            /\ UNCHANGED <<mbox, calls>>
    /\ UNCHANGED <<bg, glog, supVars, deferVars, loopVars, appVars, mbxVars, openVars>>

\* _loop leaves `async with mailbox.open(name)`: the mailbox is destroyed,
\* the callers waiting in mailbox.send get ClosedResourceError (outside the
\* try of call, so their reply channels stay open), and gen_server.start
\* returns or raises the reason.
ServerExits ==
    /\ gs.pc = "closing"
    /\ gs' = [gs EXCEPT !.pc = "exited", !.did_raise = gs.reason]
    /\ mbox' = <<>>
    /\ calls' = [c \in Callers |->
                    IF calls[c].pc = "send"
                    THEN [calls[c] EXCEPT !.pc = "done",
                                          !.result = Exc("ClosedResourceError")]
                    ELSE calls[c]]
    /\ UNCHANGED <<bg, glog, supVars, deferVars, loopVars, appVars, mbxVars, openVars>>

GenNext ==
    \/ \E c \in Callers, p \in Payloads, t \in BOOLEAN : CallSends(c, p, t)
    \/ \E c \in Callers : CallReceives(c)
    \/ \E c \in Callers : CallTimesOut(c)
    \/ ServerHandles
    \/ \E k \in 1..MaxCalls : BgReplies(k)
    \/ ServerContinues
    \/ ServerExits

GenSpec == GenInit /\ [][GenNext]_vars


----------------------------------------------------------------------------
(* Properties of the generic server, checked under GenSpec.                *)

\* The value of the key after the requests of seq, handled in that order.
RECURSIVE KvAfter(_)
KvAfter(seq) ==
    IF seq = <<>> THEN None
    ELSE LET m == seq[Len(seq)]
         IN  CASE m.payload = "api_set_v1" -> "v1"
               [] m.payload = "api_set_v2" -> "v2"
               [] OTHER -> KvAfter(SubSeq(seq, 1, Len(seq) - 1))

ApiPayloads == {"api_get", "api_set_v1", "api_set_v2", "api_clear"}

\* C16: a call whose request handle_call answers with Reply, and that waits
\* for the answer, gets the payload of that Reply: for get and set the value
\* the key had after the requests handled before (so set returns the
\* previous value and get the last value set), returned; for a request no
\* case matches the NotImplementedError value, raised. The server goes on
\* to its next message only when the caller has the reply, it keeps
\* looping, and its state is that of the sequential map.
C16_CallReply ==
    /\ \A i \in 1..Len(glog.handled) :
          LET m == glog.handled[i]
              cl == calls[m.c]
          IN  (m.payload \in ApiPayloads /\ cl.k = m.k) =>
                  /\ (cl.pc = "done" /\ cl.result.re = m.k) =>
                        cl.result =
                            For(m.k, IF m.payload = "api_clear"
                                     THEN Exc("NotImplementedError")
                                     ELSE Val(KvAfter(SubSeq(glog.handled, 1, i - 1))))
                  /\ (~cl.timeout /\ gs.msg.k # m.k) =>
                        cl.pc = "done" /\ cl.result.re = m.k
    /\ gs.pc \in {"receive", "handle"} => gs.state = KvAfter(glog.handled)
    /\ (/\ gs.pc \in {"reply", "continue"} /\ gs.reason # "ClosedResourceError"
        /\ glog.handled # <<>>
        /\ glog.handled[Len(glog.handled)].payload \in ApiPayloads)
           => gs.cont = "loop"

\* set v2 after set v1 returned "v1", and the server waits for its next
\* message with the key at "v2".
C16_Witness ==
    /\ gs.pc = "receive" /\ gs.state = "v2"
    /\ \E c \in Callers :
          /\ calls[c].payload = "api_set_v2" /\ calls[c].k = 2
          /\ calls[c].result = For(2, Val("v1"))

StopPayloads == {"special_call_stopped", "special_call_failure"}
\* The reason of the Stop that handle_call returns for the payload.
StopReason(payload) == IF payload = "special_call_failure" THEN "RuntimeError" ELSE None

C18_Original ==
    [][/\ \A c \in Callers :
             (calls[c].pc \in {"sent", "wait"} /\ calls'[c].pc = "done"
              /\ calls'[c].result = Exc("TooSlowError")) =>
                 /\ ~calls'[c].wchan /\ ~calls'[c].rchan
                 /\ gs' = gs
       /\ gs'.reason # "ClosedResourceError"]_vars

\* C19 as stated: a call that has ended has its own reply, the
\* GenServerExited sentinel sent for it, or TooSlowError.
C19_Original ==
    \A c \in Callers :
        calls[c].pc = "done" =>
            \/ calls[c].result.re = calls[c].k
            \/ calls[c].result = Exc("TooSlowError")

\* C20: a call whose handle_call returned NoReply and started the task that
\* replies returns the "done" of that task and nothing else, nobody else
\* gets it, and the server never waits for that reply: after NoReply it
\* loops, and while the task has not replied it is free to handle messages.
C20_DeferredReply ==
    /\ \A c \in Callers :
          (calls[c].pc = "done" /\ ~calls[c].result.exc) =>
              (calls[c].payload = "special_call_delayed"
                   <=> calls[c].result.val = "done")
    /\ \A c \in Callers :
          (calls[c].pc = "done" /\ calls[c].result.val = "done") =>
              /\ calls[c].result = For(calls[c].k, Val("done"))
              /\ bg[calls[c].k].st = "done"
    /\ \A k \in 1..MaxCalls :
          bg[k].st \in {"scheduled", "parked"} =>
              /\ gs.msg.k # k
              /\ (calls[bg[k].c].k = k /\ ~calls[bg[k].c].timeout) =>
                     calls[bg[k].c].pc \in {"sent", "wait"}

\* The delayed call, the first one made, returned "done" after the server
\* had handled the second call.
C20_Witness ==
    \E c \in Callers :
        /\ calls[c].k = 1 /\ calls[c].payload = "special_call_delayed"
        /\ calls[c].result = For(1, Val("done"))
        /\ bg[1].handled = 2

\* C30 as stated: the server tolerates a reply to a caller that is gone.
\* When the last request handled was answered with Reply and its caller
\* had timed out, the server goes on looping: it does not call terminate
\* and it does not end.
C30_Original ==
    (/\ glog.handled # <<>>
     /\ LET m == glog.handled[Len(glog.handled)]
        IN  /\ m.payload \in ApiPayloads
            /\ calls[m.c].k = m.k
            /\ calls[m.c].result = Exc("TooSlowError"))
        => /\ gs.cont = "loop"
           /\ gs.terminated_with = "not called"
           /\ gs.did_raise = "running"

\* The state handle_call returned for the last request of seq, the requests
\* of seq being handled in that order from the state init returned.
RECURSIVE StateAfter(_)
StateAfter(seq) ==
    IF seq = <<>> THEN None
    ELSE HandleCall(seq[Len(seq)].payload,
                    StateAfter(SubSeq(seq, 1, Len(seq) - 1))).state

\* The request number i was answered by handle_call with a Reply.
Replied(i) ==
    HandleCall(glog.handled[i].payload,
               StateAfter(SubSeq(glog.handled, 1, i - 1))).outcome = "Reply"

\* The caller of request m no longer waits for its call to end.
CallEnded(m) == calls[m.c].k = m.k => calls[m.c].pc = "done"

\* C40: the server handles its messages one at a time. It takes the next
\* message only while it is in mailbox.receive, after the handler of the
\* message before has returned and, for a Reply, its reply has been handed
\* to the caller; the handler of a message is passed the state the handler
\* of the message before returned (the state of init for the first).
C40_OneAtATime ==
    [][/\ (gs'.pc = "handle" /\ gs.pc # "handle") =>
              /\ gs.pc \in {"receive", "continue"} /\ gs.cont = "loop"
              /\ gs.msg = NoMessage
              /\ \A c \in Callers : calls[c].sender # "server"
              /\ gs'.msg \notin {glog.handled[i] : i \in 1..Len(glog.handled)}
       /\ glog'.handled # glog.handled =>
              /\ gs.pc = "handle"
              /\ glog'.handled = Append(glog.handled, gs.msg)
              /\ gs.state = StateAfter(glog.handled)
              /\ \A i \in 1..Len(glog.handled) :
                    Replied(i) => CallEnded(glog.handled[i])]_vars

\* Two callers had calls in flight: the set of the first was handled, then
\* the get of the second, which had waited in mailbox.send, got the value
\* the set had stored.
C40_Witness ==
    /\ Len(glog.handled) = 2
    /\ glog.handled[1].payload = "api_set_v1"
    /\ glog.handled[2].payload = "api_get"
    /\ glog.handled[1].c # glog.handled[2].c
    /\ calls[glog.handled[2].c].result = For(glog.handled[2].k, Val("v1"))
    /\ gs.state = "v1"

----------------------------------------------------------------------------
(* gen_server._loop with any callback module (gen_server.py).              *)
(* The module defines init and any of handle_call, handle_cast,            *)
(* handle_info and terminate; what a callback does with a message is an    *)
(* input. The state is a version number: a callback that returns           *)
(* (res, new_state) returns the next version.                           *)

MaxMessages == 3   \* messages received by the server in a run

LoopMid == "m1"    \* the mailbox opened by _loop
LoopName == "a"    \* the name given to gen_server.start
Unbound == -1      \* the local variable `state` before its first assignment

\* The callback modules: what init does, and which callbacks are defined.
Modules == [init_raises : BOOLEAN, handle_call : BOOLEAN, handle_cast : BOOLEAN,
            handle_info : BOOLEAN, terminate : BOOLEAN]

\* The shapes of a message: _CallMessage, _CastMessage, anything else.
Shapes == {"call", "cast", "info"}
\* What a handler does: the tuple it returns (Stop without or with a
\* reason, or a value that is no outcome), or it raises.
HandlerResults == {"Reply", "NoReply", "Stop", "StopReason", "invalid", "raises"}

\* The handler _loop dispatches a message of the shape to.
Handler(shape) ==
    CASE shape = "call" -> "handle_call"
      [] shape = "cast" -> "handle_cast"
      [] OTHER -> "handle_info"

\* The result of a step of the loop: the continuation (loop, stop, or raise
\* with err), and the state of the loop after it.
Continue(state) == [cont |-> "loop", err |-> None, state |-> state]
StopLoop(state) == [cont |-> "stop", err |-> None, state |-> state]
Raise(err, state) == [cont |-> "raise", err |-> err, state |-> state]

\* _handle_call with the handler's result; source_open tells whether the
\* caller's send half is still open when reply sends on it. An exception
\* leaves _handle_call before it returns the new state.
HandleCallOutcome(defined, res, source_open, state) ==
    IF ~defined THEN Raise("NotImplementedError", state)
    ELSE CASE res = "raises" -> Raise("HandlerError", state)
           [] res = "Reply" ->
                  IF source_open THEN Continue(state + 1)
                  ELSE Raise("ClosedResourceError", state)
           [] res = "NoReply" -> Continue(state + 1)
           [] res = "Stop" ->
                  IF source_open THEN StopLoop(state + 1)
                  ELSE Raise("ClosedResourceError", state)
           [] res = "StopReason" ->
                  IF source_open THEN Raise("Reason", state + 1)
                  ELSE Raise("ClosedResourceError", state)
           [] OTHER -> Raise("TypeError", state)

\* A variant of _handle_cast that takes a Reply for a NoReply.
HandleCastOutcome_AcceptsReply(defined, res, state) ==
    IF ~defined THEN Raise("NotImplementedError", state)
    ELSE CASE res = "raises" -> Raise("HandlerError", state)
           [] res \in {"NoReply", "Reply"} -> Continue(state + 1)
           [] res = "Stop" -> StopLoop(state + 1)
           [] res = "StopReason" -> Raise("Reason", state + 1)
           [] OTHER -> Raise("TypeError", state)

\* _handle_cast with the handler's result.
HandleCastOutcome(defined, res, state) ==
    IF ~defined THEN Raise("NotImplementedError", state)
    ELSE CASE res = "raises" -> Raise("HandlerError", state)
           [] res = "NoReply" -> Continue(state + 1)
           [] res = "Stop" -> StopLoop(state + 1)
           [] res = "StopReason" -> Raise("Reason", state + 1)
           [] OTHER -> Raise("TypeError", state)

\* _handle_info with the handler's result.
HandleInfoOutcome(defined, res, state) ==
    IF ~defined THEN Continue(state)
    ELSE CASE res = "raises" -> Raise("HandlerError", state)
           [] res = "NoReply" -> Continue(state + 1)
           [] res = "Stop" -> StopLoop(state + 1)
           [] res = "StopReason" -> Raise("Reason", state + 1)
           [] OTHER -> Raise("TypeError", state)

\* A variant that asks for the three handlers whatever the message is.
Dispatch_Eager(module, shape, res, source_open, state) ==
    IF ~module.handle_call \/ ~module.handle_cast
    THEN Raise("NotImplementedError", state)
    ELSE CASE Handler(shape) = "handle_call" ->
                  HandleCallOutcome(module.handle_call, res, source_open, state)
           [] Handler(shape) = "handle_cast" ->
                  HandleCastOutcome(module.handle_cast, res, state)
           [] OTHER -> HandleInfoOutcome(module.handle_info, res, state)

\* The match on the message in _loop.
Dispatch(module, shape, res, source_open, state) ==
    CASE Handler(shape) = "handle_call" ->
             HandleCallOutcome(module.handle_call, res, source_open, state)
      [] Handler(shape) = "handle_cast" ->
             HandleCastOutcome(module.handle_cast, res, state)
      [] OTHER -> HandleInfoOutcome(module.handle_info, res, state)

\* _loop has entered `async with mailbox.open(name)` and is about to call
\* init.
LoopInit ==
    /\ \E module \in Modules :
          lp = [module |-> module, pc |-> "init", state |-> Unbound,
                err |-> None, raised |-> "running"]
    /\ lplog = [received |-> <<>>, terminated |-> <<>>]
    /\ mailbox_registry = {LoopMid}
    /\ name_registry = [n \in Names |-> IF n = LoopName THEN LoopMid ELSE None]
    /\ chan = <<>> /\ task = <<>> /\ log = <<>>
    /\ SupIdle /\ AppIdle /\ DeferIdle /\ OpenIdle /\ GenIdle

\* state = await _init(module, init_arg): the state is bound, or init
\* raises and control goes to the except clause with `state` unbound.
InitCallback ==
    /\ lp.pc = "init"
    /\ lp' = IF lp.module.init_raises
             THEN [lp EXCEPT !.pc = "except", !.err = "InitError"]
             ELSE [lp EXCEPT !.pc = "receive", !.state = 0]
    /\ UNCHANGED <<lplog, supVars, deferVars, mbxVars, openVars, genVars, appVars>>

\* One turn of the while loop: mailbox.receive returns a message of the
\* shape, the message is dispatched, and the continuation is matched.
HandleMessage(shape, res, source_open) ==
    LET handler == Handler(shape)
        out == Dispatch(lp.module, shape, res, source_open, lp.state)
    IN  /\ lp.pc = "receive"
        /\ Len(lplog.received) < MaxMessages
        /\ lp' = [lp EXCEPT !.state = out.state,
                            !.err = out.err,
                            !.pc = CASE out.cont = "loop" -> "receive"
                                     [] out.cont = "stop" -> "else"
                                     [] OTHER -> "except"]
        /\ lplog' = [lplog EXCEPT !.received =
                        Append(@, [shape |-> shape,
                                   called |-> IF lp.module[handler] THEN handler ELSE None,
                                   result |-> IF lp.module[handler] THEN res ELSE None,
                                   source_open |-> source_open,
                                   before |-> lp.state,
                                   after |-> out.state,
                                   cont |-> out.cont])]
        /\ UNCHANGED <<supVars, deferVars, mbxVars, openVars, genVars, appVars>>

\* A variant of the except clause that calls terminate before it looks at
\* the state, and twice.
Terminate_Twice ==
    /\ lp.pc \in {"except", "else"}
    /\ lp' = [lp EXCEPT !.pc = "closing"]
    /\ lplog' = [lplog EXCEPT !.terminated =
                    @ \o <<[reason |-> lp.err, state |-> lp.state],
                           [reason |-> lp.err, state |-> lp.state]>>]
    /\ UNCHANGED <<supVars, deferVars, mbxVars, openVars, genVars, appVars>>

\* `await _terminate(module, err, state)` of the except clause, or
\* `await _terminate(module, None, state)` of the else clause. Reading an
\* unbound `state` raises UnboundLocalError in place of the call.
Terminate ==
    /\ lp.pc \in {"except", "else"}
    /\ IF lp.state = Unbound
       THEN /\ lp' = [lp EXCEPT !.pc = "closing", !.err = "UnboundLocalError"]
            /\ UNCHANGED lplog
       ELSE /\ lp' = [lp EXCEPT !.pc = "closing"]
            /\ lplog' = IF lp.module.terminate
                        THEN [lplog EXCEPT !.terminated =
                                 Append(@, [reason |-> lp.err, state |-> lp.state])]
                        ELSE lplog
    /\ UNCHANGED <<supVars, deferVars, mbxVars, openVars, genVars, appVars>>

\* `raise err from None` or the end of the try statement, then the end of
\* `async with mailbox.open`: destroy(mid) releases the mailbox and its
\* names, and _loop, hence gen_server.start, raises or returns.
LoopExits ==
    /\ lp.pc = "closing"
    /\ lp' = [lp EXCEPT !.pc = "exited", !.raised = lp.err]
    /\ name_registry' = UnregisterAll(LoopMid)
    /\ mailbox_registry' = mailbox_registry \ {LoopMid}
    /\ UNCHANGED <<lplog, chan, task, log, supVars, deferVars, openVars, genVars, appVars>>

LoopNext ==
    \/ InitCallback
    \/ \E shape \in Shapes, res \in HandlerResults, source_open \in BOOLEAN :
          HandleMessage(shape, res, source_open)
    \/ Terminate
    \/ LoopExits

LoopSpec == LoopInit /\ [][LoopNext]_vars

\* The task of _loop is cancelled while it waits in init or in
\* mailbox.receive: trio.Cancelled is a BaseException, so neither the
\* `except Exception` clause nor the else clause runs and terminate is not
\* called; the finally clause of mailbox.open runs destroy(mid), which
\* unregisters the names and pops the id, and _loop ends with Cancelled.
LoopCancelled ==
    /\ lp.pc \in {"init", "receive"}
    /\ lp' = [lp EXCEPT !.pc = "exited", !.err = Cancelled.type,
                        !.raised = Cancelled.type]
    /\ name_registry' = UnregisterAll(LoopMid)
    /\ mailbox_registry' = mailbox_registry \ {LoopMid}
    /\ UNCHANGED <<lplog, chan, task, log, supVars, deferVars, openVars, genVars, appVars>>

\* _loop in a task that can be cancelled.
LoopCancelNext ==
    \/ InitCallback
    \/ \E shape \in Shapes, res \in HandlerResults, source_open \in BOOLEAN :
          HandleMessage(shape, res, source_open)
    \/ Terminate
    \/ LoopExits
    \/ LoopCancelled

LoopCancelSpec == LoopInit /\ [][LoopCancelNext]_vars

----------------------------------------------------------------------------
(* gen_server.call against _loop with any callback module: the callers of  *)
(* a server whose handle_call may be missing, raise, or return any value.  *)

\* The modules that have an init that returns, and the payload of a call.
CallModules == {md \in Modules : ~md.init_raises /\ md.handle_cast /\ md.handle_info}
Request == "request"

\* No message is being handled. res: what the handler did with the message;
\* out: what _handle_call will return once its reply was taken.
NoHandling == [msg |-> NoMessage, res |-> None, out |-> Continue(0)]

\* The server waits in its first mailbox.receive; no call was made.
CallExitInit ==
    /\ \E module \in CallModules :
          lp = [module |-> module, pc |-> "receive", state |-> 0,
                err |-> None, raised |-> "running"]
    /\ lplog = [received |-> <<>>, terminated |-> <<>>]
    /\ mailbox_registry = {LoopMid}
    /\ name_registry = [n \in Names |-> IF n = LoopName THEN LoopMid ELSE None]
    /\ chan = <<>> /\ task = <<>> /\ log = <<>>
    /\ gs = NoHandling
    /\ mbox = <<>>
    /\ calls = [c \in Callers |-> NoCall]
    /\ bg = <<>>
    /\ glog = [made |-> 0, handled |-> <<>>]
    /\ SupIdle /\ AppIdle /\ DeferIdle /\ OpenIdle

\* _loop goes on with what _handle_call returned or raised.
Resumed(out) ==
    [lp EXCEPT !.state = out.state,
               !.err = out.err,
               !.pc = CASE out.cont = "loop" -> "receive"
                        [] out.cont = "stop" -> "else"
                        [] OTHER -> "except"]

\* call(name, payload, timeout) up to mailbox.send: the reply channel is
\* opened; with no mailbox under the name the send raises
\* MailboxDoesNotExist, else the caller waits for the server to receive.
CallBegins(c, timeout) ==
    LET k == glog.made + 1
        new == [NoCall EXCEPT !.k = k, !.payload = Request, !.timeout = timeout,
                              !.wchan = TRUE, !.rchan = TRUE]
    IN  /\ calls[c].pc \in {"idle", "done"}
        /\ glog.made < MaxCalls
        /\ glog' = [glog EXCEPT !.made = k]
        /\ IF name_registry[LoopName] = None
           THEN /\ calls' = [calls EXCEPT ![c] =
                               [new EXCEPT !.pc = "done",
                                           !.result = Exc("MailboxDoesNotExist")]]
                /\ UNCHANGED mbox
           ELSE /\ calls' = [calls EXCEPT ![c] = [new EXCEPT !.pc = "send"]]
                /\ mbox' = Append(mbox, CallMessage(k, c, Request))
        /\ UNCHANGED <<gs, bg, supVars, deferVars, loopVars, appVars, mbxVars, openVars>>

\* `message = await mailbox.receive(mid)` takes the message of the first
\* caller waiting in mailbox.send, whose send returns.
LoopReceives ==
    /\ lp.pc = "receive"
    /\ mbox # <<>>
    /\ lp' = [lp EXCEPT !.pc = "handle"]
    /\ gs' = [NoHandling EXCEPT !.msg = Head(mbox)]
    /\ mbox' = Tail(mbox)
    /\ calls' = [calls EXCEPT ![Head(mbox).c] = [@ EXCEPT !.pc = "sent"]]
    /\ UNCHANGED <<lplog, bg, glog, supVars, deferVars, appVars, mbxVars, openVars>>

\* _handle_call for the message received: a missing handle_call raises
\* NotImplementedError; else the handler runs and its result is matched.
\* Reply and Stop send on the source (the reply, or GenServerExited): a
\* closed source raises ClosedResourceError, a caller waiting in
\* rchan.receive takes the value, and else the server waits in the send.
\* NoReply, a handler that raises and a result that matches no case send
\* nothing.
LoopHandles(res) ==
    LET m == gs.msg
        c == m.c
        out == HandleCallOutcome(lp.module.handle_call, res, SourceOpen(c, m.k), lp.state)
        sends == lp.module.handle_call /\ res \in {"Reply", "Stop", "StopReason"}
        value == For(m.k, IF res = "Reply" THEN Val("reply")
                          ELSE Exc("GenServerExited"))
    IN  /\ lp.pc = "handle"
        /\ glog' = [glog EXCEPT !.handled = Append(@, [m EXCEPT !.payload = res])]
        /\ IF ~sends \/ ~SourceOpen(c, m.k)
           THEN /\ lp' = Resumed(out)
                /\ gs' = NoHandling
                /\ UNCHANGED calls
           ELSE IF calls[c].pc = "wait"
           THEN /\ calls' = [calls EXCEPT ![c] = Returned_(@, value)]
                /\ lp' = Resumed(out)
                /\ gs' = NoHandling
           ELSE /\ calls' = [calls EXCEPT ![c] =
                               [@ EXCEPT !.sender = "server", !.value = value]]
                /\ lp' = [lp EXCEPT !.pc = "reply"]
                /\ gs' = [gs EXCEPT !.res = res, !.out = out]
        /\ UNCHANGED <<lplog, mbox, bg, supVars, deferVars, appVars, mbxVars, openVars>>

\* call enters rchan.receive(): it takes the value of the server waiting in
\* the send, which resumes, or it waits.
CallWaits(c) ==
    /\ calls[c].pc = "sent"
    /\ IF calls[c].sender = None
       THEN /\ calls' = [calls EXCEPT ![c] = [@ EXCEPT !.pc = "wait"]]
            /\ UNCHANGED <<lp, gs>>
       ELSE /\ calls' = [calls EXCEPT ![c] = Returned_(@, calls[c].value)]
            /\ lp' = Resumed(gs.out)
            /\ gs' = NoHandling
    /\ UNCHANGED <<lplog, mbox, bg, glog, supVars, deferVars, appVars, mbxVars, openVars>>

\* The deadline of trio.fail_after passes: call raises TooSlowError and its
\* finally clause closes both halves, which wakes a server waiting in the
\* send with ClosedResourceError.
CallDeadline(c) ==
    /\ calls[c].pc \in {"sent", "wait"}
    /\ calls[c].timeout
    /\ calls' = [calls EXCEPT ![c] = Returned_(@, Exc("TooSlowError"))]
    /\ IF calls[c].sender = "server"
       THEN /\ lp' = Resumed(Raise("ClosedResourceError", lp.state))
            /\ gs' = NoHandling
       ELSE UNCHANGED <<lp, gs>>
    /\ UNCHANGED <<lplog, mbox, bg, glog, supVars, deferVars, appVars, mbxVars, openVars>>

\* _loop leaves `async with mailbox.open(name)` after terminate: the names
\* and the id are removed, the callers waiting in mailbox.send get
\* ClosedResourceError, and gen_server.start returns or raises. The reply
\* channels of the calls are not touched.
LoopExitsWithCallers ==
    /\ lp.pc = "closing"
    /\ lp' = [lp EXCEPT !.pc = "exited", !.raised = lp.err]
    /\ name_registry' = UnregisterAll(LoopMid)
    /\ mailbox_registry' = mailbox_registry \ {LoopMid}
    /\ mbox' = <<>>
    /\ calls' = [c \in Callers |->
                    IF calls[c].pc = "send"
                    THEN [calls[c] EXCEPT !.pc = "done",
                                          !.result = Exc("ClosedResourceError")]
                    ELSE calls[c]]
    /\ UNCHANGED <<lplog, gs, bg, glog, chan, task, log, supVars, deferVars, openVars, appVars>>

CallExitNext ==
    \/ \E c \in Callers, t \in BOOLEAN : CallBegins(c, t)
    \/ LoopReceives
    \/ \E res \in HandlerResults : LoopHandles(res)
    \/ \E c \in Callers : CallWaits(c)
    \/ \E c \in Callers : CallDeadline(c)
    \/ Terminate
    \/ LoopExitsWithCallers

CallExitSpec == CallExitInit /\ [][CallExitNext]_vars

\* The trio scheduler runs every task that can run, and a deadline that was
\* set passes: each step of the server and of a caller that has called is
\* taken when it stays possible. Whether a caller calls is left open.
CallExitFairSpec ==
    /\ CallExitSpec
    /\ WF_vars(LoopReceives)
    /\ WF_vars(\E res \in HandlerResults : LoopHandles(res))
    /\ \A c \in Callers : WF_vars(CallWaits(c)) /\ WF_vars(CallDeadline(c))
    /\ WF_vars(Terminate)
    /\ WF_vars(LoopExitsWithCallers)

\* C32 as stated: when the server has ended while a caller still waits for
\* the answer to a call the server received, the caller eventually raises
\* GenServerExited.
C32_Original ==
    \A c \in Callers :
        (lp.pc = "exited" /\ calls[c].pc \in {"sent", "wait"} /\ ~calls[c].timeout)
            ~> (calls[c].pc = "done" /\ calls[c].result.val = "GenServerExited")

----------------------------------------------------------------------------
(* Properties of _loop, checked under LoopSpec.                            *)

\* The mailbox of the server and its name are released.
Released == LoopMid \notin mailbox_registry /\ NamesOf(LoopMid) = {}

\* C21 as stated: when init raises E, gen_server.start raises E itself,
\* terminate is not called (no state exists), and the mailbox and the name
\* of the server are released.
C21_Original ==
    (lp.module.init_raises /\ lp.pc = "exited") =>
        /\ lp.raised = "InitError"
        /\ lplog.terminated = <<>>
        /\ Released

\* The last message received.
LastReceived == lplog.received[Len(lplog.received)]

\* The loop ended (it is past the call of terminate) because the handler of
\* the last message returned Stop or raised; for a call, the caller was
\* there to get GenServerExited.
EndedByCallback ==
    /\ lp.pc \in {"closing", "exited"} /\ lplog.received # <<>>
    /\ LastReceived.called # None
    /\ LastReceived.result \in {"Stop", "StopReason", "raises"}
    /\ (LastReceived.shape = "call" /\ LastReceived.result # "raises")
           => LastReceived.source_open

C23_Dispatch ==
    /\ \A i \in 1..Len(lplog.received) :
          LET m == lplog.received[i]
          IN  /\ m.shape = "call" =>
                    m.called = IF lp.module.handle_call THEN "handle_call" ELSE None
              /\ m.shape = "cast" =>
                    m.called = IF lp.module.handle_cast THEN "handle_cast" ELSE None
              /\ m.shape = "info" =>
                    m.called = IF lp.module.handle_info THEN "handle_info" ELSE None
              /\ (m.called = None /\ m.shape \in {"call", "cast"}) =>
                    /\ i = Len(lplog.received)
                    /\ m.cont = "raise" /\ m.after = m.before
                    /\ lp.pc \in {"except", "closing", "exited"}
                    /\ lp.err = "NotImplementedError"
                    /\ lp.pc = "exited" => lp.raised = "NotImplementedError"
              /\ (m.called = None /\ m.shape = "info") =>
                    /\ m.cont = "loop" /\ m.after = m.before
                    /\ i = Len(lplog.received) => (lp.pc = "receive" /\ lp.state = m.before)
    /\ lp.err = "NotImplementedError" =>
          /\ lplog.received # <<>>
          /\ LastReceived.called = None
          /\ LastReceived.shape \in {"call", "cast"}

\* A module with handle_cast only: an info is dropped, a cast is handled,
\* and the call that follows ends the server with NotImplementedError.
C23_Witness ==
    /\ ~lp.module.handle_call /\ ~lp.module.handle_info /\ lp.module.handle_cast
    /\ Len(lplog.received) = 3
    /\ lplog.received[1].shape = "info" /\ lplog.received[1].called = None
    /\ lplog.received[2].shape = "cast" /\ lplog.received[2].result = "NoReply"
    /\ lplog.received[3].shape = "call"
    /\ lp.pc = "exited" /\ lp.raised = "NotImplementedError" /\ lp.state = 1

\* C37 as stated: a gen_server that was cancelled has released its mailbox
\* and its names and has called its terminate callback.
C37_Original ==
    (lp.pc = "exited" /\ lp.raised = Cancelled.type) =>
        /\ Released
        /\ lp.module.terminate => lplog.terminated # <<>>

\* The handler of message m returned a value outside the outcome schema of
\* its kind: no (outcome, state) pair, or a Reply from handle_cast or
\* handle_info.
InvalidResult(m) ==
    /\ m.called # None
    /\ \/ m.result = "invalid"
       \/ m.shape \in {"cast", "info"} /\ m.result = "Reply"

\* C33: when handle_cast or handle_info returns a Reply outcome, or a
\* handler returns something that is no (outcome, state) pair, the loop ends
\* with TypeError: the state of the loop stays the one before the handler,
\* terminate, if defined, is called once with the TypeError and that
\* state, and start raises the TypeError; and TypeError has no other cause.
C33_TypeError ==
    /\ \A i \in 1..Len(lplog.received) :
          InvalidResult(lplog.received[i]) =>
              LET m == lplog.received[i]
              IN  /\ i = Len(lplog.received)
                  /\ m.cont = "raise" /\ m.after = m.before
                  /\ lp.state = m.before /\ lp.err = "TypeError"
                  /\ lp.pc \in {"except", "closing", "exited"}
                  /\ lp.pc = "except" => lplog.terminated = <<>>
                  /\ lp.pc \in {"closing", "exited"} =>
                        lplog.terminated =
                            IF lp.module.terminate
                            THEN <<[reason |-> "TypeError", state |-> m.before]>>
                            ELSE <<>>
                  /\ lp.pc = "exited" => lp.raised = "TypeError"
    /\ lp.err = "TypeError" => (lplog.received # <<>> /\ InvalidResult(LastReceived))

\* A cast was handled, then handle_info returned a Reply: terminate got the
\* TypeError with the state the cast had left, and start raised it.
C33_Witness ==
    /\ lp.pc = "exited" /\ lp.raised = "TypeError" /\ lp.module.terminate
    /\ Len(lplog.received) = 2
    /\ lplog.received[1].shape = "cast" /\ lplog.received[1].result = "NoReply"
    /\ lplog.received[2].shape = "info" /\ lplog.received[2].result = "Reply"
    /\ lplog.terminated = <<[reason |-> "TypeError", state |-> 1]>>

----------------------------------------------------------------------------
(* dynamic_supervisor.py: a supervisor whose children arrive as messages.  *)
(* start opens a mailbox and a nursery and runs _child_listener in it; the *)
(* listener starts supervisor._child_monitor in that nursery for every     *)
(* child_spec it receives, so the monitors are those of supervisor.start.  *)

\* start has run up to the listener's first mailbox.receive: no children.
DynInit ==
    /\ max_restarts \in 0..MaxRestarts
    /\ max_seconds \in 0..MaxSeconds
    /\ restart \in [ChildIds -> restart_strategy]
    /\ now = 0
    /\ pc = [c \in ChildIds |-> "init"]
    /\ exec_count = [c \in ChildIds |-> 0]
    /\ failure_times = [c \in ChildIds |-> <<>>]
    /\ outcome = [c \in ChildIds |-> Pending]
    /\ result = [c \in ChildIds |-> Pending]
    /\ cancelled = FALSE
    /\ sup = [pc |-> "listening", next |-> 1, result |-> None, errors |-> {}]
    /\ hist = [c \in ChildIds |-> HistInit]
    /\ DeferIdle /\ MbxIdle /\ OpenIdle /\ GenIdle /\ LoopIdle /\ AppIdle

\* A variant in which the start of the child is recorded as a failure.
StartChild_CountsStart(c) ==
    /\ sup.pc = "listening" /\ pc[c] = "init"
    /\ pc' = [pc EXCEPT ![c] = "spawned"]
    /\ failure_times' = [failure_times EXCEPT ![c] = <<now>>]
    /\ sup' = [sup EXCEPT !.pc = IF cancelled THEN "waiting" ELSE "listening"]
    /\ UNCHANGED <<supFixed, now, exec_count, outcome, result, cancelled, hist>>

\* start_child(mid, spec): mailbox.send hands the spec to the listener,
\* whose receive returns it, and the listener runs `await
\* nursery.start(supervisor._child_monitor, spec, opts)`: the monitor runs up
\* to `nursery.start_soon(spec.task, *spec.args)`. When the scope was
\* cancelled after the handoff, nursery.start raises in the listener once
\* the monitor has ended.
StartChild(c) ==
    /\ sup.pc = "listening" /\ pc[c] = "init"
    /\ pc' = [pc EXCEPT ![c] = "spawned"]
    /\ sup' = [sup EXCEPT !.pc = IF cancelled THEN "waiting" ELSE "listening"]
    /\ UNCHANGED <<supFixed, now, exec_count, failure_times, outcome, result, cancelled, hist>>

\* The listener waits in mailbox.receive in a cancelled scope: it ends with
\* Cancelled, and the nursery waits for the monitors.
ListenerCancelled ==
    /\ sup.pc = "listening" /\ cancelled
    /\ sup' = [sup EXCEPT !.pc = "waiting"]
    /\ UNCHANGED <<supFixed, now, pc, exec_count, failure_times, outcome, result, cancelled, hist>>

\* The nursery of start has no task left: start ends, raising the group of
\* what the monitors raised if any of them raised an error, and else the
\* cancellation that ended the listener.
DynSupervisorExits ==
    LET started == {c \in ChildIds : pc[c] # "init"}
        raised == {result[c] : c \in {x \in started : Failed(result[x])}}
        errors == {e \in raised : e # Cancelled}
    IN  /\ sup.pc = "waiting"
        /\ \A c \in started : pc[c] = "done"
        /\ sup' = [sup EXCEPT !.pc = "done",
                              !.errors = errors,
                              !.result = IF errors # {} THEN "raised" ELSE "cancelled"]
        /\ UNCHANGED <<supFixed, now, pc, exec_count, failure_times, outcome, result, cancelled, hist>>

DynNext ==
    \/ \E c \in ChildIds : StartChild(c)
    \/ \E c \in ChildIds : BodyBegins(c)
    \/ \E c \in ChildIds : ChildReturns(c)
    \/ \E c \in ChildIds : ChildRaises(c)
    \/ \E c \in ChildIds : ChildCancelled(c)
    \/ \E c \in ChildIds : RestartChild(c)
    \/ \E c \in ChildIds : SleepCancelled(c)
    \/ Cancel
    \/ Tick
    \/ ListenerCancelled
    \/ DynSupervisorExits

DynSpec == DynInit /\ [][DynNext]_vars

\* A child whose attempts all returned is done after its one execution.
RunsOnce(c) ==
    /\ exec_count[c] <= 1
    /\ pc[c] # "sleep"
    /\ pc[c] = "done" => exec_count[c] = 1

\* A temporary child, or a transient child whose attempts returned.
NotRestarted(c) ==
    restart[c] = TEMPORARY \/ (restart[c] = TRANSIENT /\ hist[c].all_returned)

\* C24 as stated: a child started with start_child that crashes on every
\* attempt is executed exactly max_restarts + 1 times and the dynamic
\* supervisor then raises its last error; a permanent child that returns is
\* executed max_restarts + 1 times; a temporary child and a transient child
\* that returns are executed once.
C24_Original ==
    \A c \in ChildIds :
        /\ RaisesAlways(c) => RunsRPlus1ThenRaises(c)
        /\ ReturnsImmediately(c) => RunsRPlus1ThenClean(c)
        /\ NotRestarted(c) => RunsOnce(c)

\* C24 amended: the same, for a crashing child whose failures lie less than
\* max_seconds apart and for a permanent child that returns at once under
\* max_seconds > 0: the children of a dynamic supervisor are restarted as
\* those of supervisor.start are.
C24_DynamicChild ==
    \A c \in ChildIds :
        /\ (RaisesAlways(c) /\ WithinWindow(c)) => RunsRPlus1ThenRaises(c)
        /\ (ReturnsImmediately(c) /\ max_seconds > 0) => RunsRPlus1ThenClean(c)
        /\ NotRestarted(c) => RunsOnce(c)

\* The second child started, transient, crashed twice under max_restarts =
\* 1, and the dynamic supervisor raised its last error.
C24_Witness ==
    /\ max_restarts = 1 /\ max_seconds = 1
    /\ restart["c2"] = TRANSIENT /\ RaisesAlways("c2") /\ WithinWindow("c2")
    /\ exec_count["c2"] = 2 /\ pc["c2"] = "done"
    /\ exec_count["c1"] = 1 /\ hist["c1"].all_returned
    /\ sup.pc = "done" /\ sup.result = "raised"
    /\ sup.errors = {Group(<<RuntimeError("c2", 2)>>)}

\* C35: the restart budget is per child. The record of a child changes
\* only when an attempt of that child ends, to what _retry_strategy makes
\* of the child's own record, and the restart is decided from it alone;
\* the records of its siblings stay as they are in that step, and a child
\* attached with start_child starts with an empty record.
C35_PerChildBudget ==
    [][\A c \in ChildIds :
          LET d == RetryStrategy(restart[c], outcome'[c], failure_times[c], now,
                                 max_restarts, max_seconds)
          IN  /\ (pc[c] = "init" /\ pc'[c] # "init") => failure_times'[c] = <<>>
              /\ pc[c] = "init" => failure_times[c] = <<>>
              /\ (pc[c] = "running" /\ pc'[c] # "running") =>
                    /\ failure_times'[c] = d.failure_times
                    /\ pc'[c] = IF d.retry THEN "sleep" ELSE "done"
                    /\ \A x \in ChildIds \ {c} : failure_times'[x] = failure_times[x]
              /\ ~(pc[c] = "running" /\ pc'[c] # "running") =>
                    failure_times'[c] = failure_times[c]]_vars

\* Under max_restarts = 1 the first child has used its restart and ended
\* with its error, and the second child, attached later, still has its
\* restart after a first failure.
C35_Witness ==
    /\ max_restarts = 1 /\ max_seconds = 1
    /\ pc["c1"] = "done" /\ exec_count["c1"] = 2 /\ Failed(result["c1"])
    /\ result["c1"] # Cancelled
    /\ exec_count["c2"] = 1 /\ Len(failure_times["c2"]) = 1
    /\ hist["c2"].allowed /\ hist["c2"].all_raised

----------------------------------------------------------------------------
(* application.py and node.py: a node starts its applications in order;    *)
(* each runs in an _app_scope task of the node's nursery, as the only      *)
(* child of a supervisor; a task of a running application may call         *)
(* application.start and application.stop too.                             *)

MaxScopes == 3     \* _app_scope tasks started in a run
MaxAppCalls == 2   \* calls of application.start and stop made by applications

Apps == <<"app_a", "app_b">>                      \* node.run(apps), by module name
AppNames == {Apps[i] : i \in 1..Len(Apps)}
AppCallers == {"node", "t1"}   \* node._start, and a task of an application

\* What the start function of an application module does when it is not
\* cancelled.
AppBodies == {"returns", "raises"}

NoScope == 0
\* A caller that is in no call of application.start.
NotStarting == [pc |-> "idle", name |-> None, scope |-> NoScope, host |-> NoScope]

\* A variant of _app_scope that supervises every application as permanent.
NewScope_AlwaysPermanent(name, permanent) ==
    [name |-> name, restart |-> PERMANENT,
     pc |-> "spawned", exec_count |-> 0, failure_times |-> <<>>,
     result |-> Pending, cancelled |-> FALSE, first |-> -1, within |-> TRUE]

\* The _app_scope task of an application: its nursery, and the monitor of
\* the supervisor's only child, which is about to run app.module.start.
NewScope(name, permanent) ==
    [name |-> name,
     restart |-> IF permanent THEN PERMANENT ELSE TRANSIENT,
     pc |-> "spawned", exec_count |-> 0, failure_times |-> <<>>,
     result |-> Pending,
     cancelled |-> FALSE,              \* local_nursery.cancel_scope
     first |-> -1,                     \* history: when the first attempt ended,
     within |-> TRUE]                  \* the others less than max_seconds later

\* What no step of a node changes.
appFixed == <<max_restarts, max_seconds, restart, pc, exec_count, failure_times,
              outcome, result, cancelled, sup, hist,
              deferVars, mbxVars, openVars, genVars, loopVars>>

\* node._start has run application._init(nursery): the registry is empty.
\* The applications share the supervisor options.
AppInit ==
    /\ max_restarts \in 0..MaxRestarts
    /\ max_seconds \in 0..MaxSeconds
    /\ now = 0
    /\ restart = <<>> /\ pc = <<>> /\ exec_count = <<>> /\ failure_times = <<>>
    /\ outcome = <<>> /\ result = <<>> /\ cancelled = FALSE
    /\ sup = <<>> /\ hist = <<>>
    /\ app_registry = [n \in AppNames |-> NoScope]
    /\ scopes = <<>>
    /\ starting = [t \in AppCallers |-> NotStarting]
    /\ \E permanent \in [AppNames -> BOOLEAN], body \in [AppNames -> AppBodies] :
          node = [pc |-> "starting", next |-> 1, cancelled |-> FALSE,
                  errors |-> {}, result |-> None,
                  permanent |-> permanent, body |-> body,
                  calls |-> 0,   \* history: the calls made by applications
                  \* history: the name of the last application.stop that
                  \* found no entry
                  stopped_none |-> None]
    /\ DeferIdle /\ MbxIdle /\ OpenIdle /\ GenIdle /\ LoopIdle

\* The cancel scope of the application's nursery, or the node's around it,
\* is cancelled.
ScopeCancelled(i) == scopes[i].cancelled \/ node.cancelled
\* The caller is in a cancelled scope.
CallerCancelled(t) ==
    IF t = "node" THEN node.cancelled
    ELSE starting[t].host # NoScope /\ ScopeCancelled(starting[t].host)
\* The caller's nursery.start has not returned the nursery of scope i yet.
BeingStarted(i) ==
    \E t \in AppCallers :
        starting[t].pc = "registering" /\ starting[t].scope = i /\ ~CallerCancelled(t)
\* The body of scope h waits in a call of application.start.
InStart(h) == \E t \in AppCallers : starting[t].pc = "registering" /\ starting[t].host = h

\* node._start after a call of application.start: the next application, or
\* the end of the for loop and of the nursery block.
NodeAfterStart(nd) ==
    [nd EXCEPT !.next = @ + 1,
               !.pc = IF nd.next = Len(Apps) THEN "waiting" ELSE "starting"]

\* application.start(app) up to its checkpoint: nothing when the module
\* name is in the registry; else `await nursery.start(_app_scope, app)`
\* starts the task, which opens its nursery and starts the supervisor.
\* The caller t is node._start with its next application, or a task of the
\* running application h.
ApplicationStart(t, name, h) ==
    /\ starting[t].pc = "idle"
    /\ IF t = "node"
       THEN node.pc = "starting" /\ name = Apps[node.next] /\ h = NoScope
       ELSE /\ h \in 1..Len(scopes) /\ scopes[h].pc = "running"
            /\ Len(scopes) + (Len(Apps) + 1 - node.next) < MaxScopes
            /\ node.calls < MaxAppCalls
    /\ IF app_registry[name] # NoScope
       THEN /\ node' = IF t = "node" THEN NodeAfterStart(node)
                       ELSE [node EXCEPT !.calls = @ + 1]
            /\ UNCHANGED <<app_registry, scopes, starting>>
       ELSE /\ Len(scopes) < MaxScopes
            /\ scopes' = Append(scopes, NewScope(name, node.permanent[name]))
            /\ starting' = [starting EXCEPT ![t] =
                               [pc |-> "registering", name |-> name,
                                scope |-> Len(scopes) + 1, host |-> h]]
            /\ node' = IF t = "node" THEN node ELSE [node EXCEPT !.calls = @ + 1]
            /\ UNCHANGED app_registry
    /\ UNCHANGED <<appFixed, now>>

\* nursery.start returns the nursery of the task and application.start
\* stores it under the module name; in a cancelled scope nursery.start
\* raises Cancelled and nothing is stored.
ApplicationRegisters(t) ==
    LET call == starting[t]
    IN  /\ call.pc = "registering"
        /\ starting' = [starting EXCEPT ![t] = NotStarting]
        /\ IF CallerCancelled(t)
           THEN /\ UNCHANGED app_registry
                /\ node' = IF t = "node" THEN [node EXCEPT !.pc = "waiting"] ELSE node
           ELSE /\ app_registry' = [app_registry EXCEPT ![call.name] = call.scope]
                /\ node' = IF t = "node" THEN NodeAfterStart(node) ELSE node
        /\ UNCHANGED <<appFixed, now, scopes>>

\* A variant of application.stop that cancels and keeps the entry.
ApplicationStop_KeepsEntry(t, name, h) ==
    /\ t # "node" /\ starting[t].pc = "idle"
    /\ h \in 1..Len(scopes) /\ scopes[h].pc = "running"
    /\ node.calls < MaxAppCalls
    /\ IF app_registry[name] # NoScope
       THEN /\ scopes' = [scopes EXCEPT ![app_registry[name]].cancelled = TRUE]
            /\ node' = [node EXCEPT !.calls = @ + 1]
       ELSE /\ node' = [node EXCEPT !.calls = @ + 1, !.stopped_none = name]
            /\ UNCHANGED scopes
    /\ UNCHANGED <<appFixed, now, starting, app_registry>>

\* application.stop(app_name), called by a task of the running application
\* h: the entry is popped and the cancel scope of its nursery is cancelled;
\* nothing when the name is not in the registry.
ApplicationStop(t, name, h) ==
    /\ t # "node" /\ starting[t].pc = "idle"
    /\ h \in 1..Len(scopes) /\ scopes[h].pc = "running"
    /\ node.calls < MaxAppCalls
    /\ IF app_registry[name] # NoScope
       THEN /\ app_registry' = [app_registry EXCEPT ![name] = NoScope]
            /\ scopes' = [scopes EXCEPT ![app_registry[name]].cancelled = TRUE]
            /\ node' = [node EXCEPT !.calls = @ + 1]
       ELSE /\ node' = [node EXCEPT !.calls = @ + 1, !.stopped_none = name]
            /\ UNCHANGED <<app_registry, scopes>>
    /\ UNCHANGED <<appFixed, now, starting>>

\* The scheduler runs the task spawned for app.module.start for the first
\* time: the body begins, cancelled scope or not. The task is three
\* scheduling rounds away from the start of its _app_scope, the caller of
\* nursery.start one.
AppBodyBegins(i) ==
    /\ i \in 1..Len(scopes) /\ scopes[i].pc = "spawned"
    /\ ~BeingStarted(i)
    /\ scopes' = [scopes EXCEPT ![i].pc = "running", ![i].exec_count = @ + 1]
    /\ UNCHANGED <<appFixed, now, app_registry, starting, node>>

\* The attempt of the application of scope i ends with outcome o: the retry
\* strategy of its monitor decides. An error that is not retried leaves
\* supervisor.start, the nursery of _app_scope and the task, and the
\* node's nursery cancels its scope.
AppAttemptEnds(i, o) ==
    LET sc == scopes[i]
        d == RetryStrategy(sc.restart, o, sc.failure_times, now,
                           max_restarts, max_seconds)
        surfaces == ~d.retry /\ Failed(o) /\ o # Cancelled
    IN  /\ sc.pc = "running"
        /\ ~InStart(i)
        /\ scopes' = [scopes EXCEPT ![i] =
              [sc EXCEPT !.pc = IF d.retry THEN "sleep" ELSE "done",
                         !.result = IF d.retry THEN @ ELSE o,
                         !.failure_times = IF d.retry THEN d.failure_times ELSE <<>>,
                         !.first = IF ~d.retry THEN -1
                                   ELSE IF d.eligible /\ @ = -1 THEN now ELSE @,
                         !.within = @ /\ (d.eligible => now - (IF sc.first = -1 THEN now
                                                               ELSE sc.first) < max_seconds)]]
        /\ node' = IF surfaces
                   THEN [node EXCEPT !.cancelled = TRUE, !.errors = @ \cup {o}]
                   ELSE node
        /\ UNCHANGED <<appFixed, now, app_registry, starting>>

\* The bodies of app.module.start begun or about to begin.
RECURSIVE AppStartedUpTo(_)
AppStartedUpTo(n) ==
    IF n = 0 THEN 0
    ELSE AppStartedUpTo(n - 1) + scopes[n].exec_count
            + (IF scopes[n].pc = "spawned" THEN 1 ELSE 0)
AppStarted == AppStartedUpTo(Len(scopes))

\* app.module.start returns.
AppReturns(i) ==
    /\ i \in 1..Len(scopes) /\ node.body[scopes[i].name] = "returns"
    /\ AppAttemptEnds(i, Returned)

\* app.module.start raises an error.
AppRaises(i) ==
    /\ i \in 1..Len(scopes) /\ node.body[scopes[i].name] = "raises"
    /\ AppAttemptEnds(i, ChildRunnerRaises(RuntimeError(scopes[i].name,
                                                        scopes[i].exec_count)))

\* app.module.start is at a checkpoint in a cancelled scope.
AppCancelled(i) ==
    /\ i \in 1..Len(scopes) /\ ScopeCancelled(i)
    /\ AppAttemptEnds(i, ChildRunnerRaises(Cancelled))

\* tenacity's sleep passes its checkpoint: the next attempt is spawned.
AppRestarts(i) ==
    /\ i \in 1..Len(scopes) /\ scopes[i].pc = "sleep" /\ ~ScopeCancelled(i)
    /\ AppStarted < MaxExec
    /\ scopes' = [scopes EXCEPT ![i].pc = "spawned"]
    /\ UNCHANGED <<appFixed, now, app_registry, starting, node>>

\* tenacity's sleep raises Cancelled, which ends the monitor.
AppSleepCancelled(i) ==
    /\ i \in 1..Len(scopes) /\ scopes[i].pc = "sleep" /\ ScopeCancelled(i)
    /\ scopes' = [scopes EXCEPT ![i].pc = "done", ![i].result = Cancelled,
                                ![i].failure_times = <<>>, ![i].first = -1]
    /\ UNCHANGED <<appFixed, now, app_registry, starting, node>>

\* Time passes.
AppTick ==
    /\ now < MaxSeconds /\ \E i \in 1..Len(scopes) : scopes[i].pc = "running"
    /\ now' = now + 1
    /\ UNCHANGED <<appFixed, app_registry, scopes, starting, node>>

\* A variant in which _start does not wait for the applications.
NodeExits_NoWait ==
    /\ node.pc = "waiting"
    /\ node' = [node EXCEPT !.pc = "done",
                            !.result = IF node.errors # {} THEN "raised" ELSE Returned.type]
    /\ UNCHANGED <<appFixed, now, app_registry, scopes, starting>>

\* The for loop of node._start is over and the node's nursery has no task
\* left: _start ends, trio.run and node.run return, or raise the errors of
\* the applications.
NodeExits ==
    /\ node.pc = "waiting"
    /\ \A i \in 1..Len(scopes) : scopes[i].pc = "done"
    /\ node' = [node EXCEPT !.pc = "done",
                            !.result = IF node.errors # {} THEN "raised" ELSE Returned.type]
    /\ UNCHANGED <<appFixed, now, app_registry, scopes, starting>>

AppNext ==
    \/ \E t \in AppCallers, name \in AppNames, h \in 0..MaxScopes :
          ApplicationStart(t, name, h)
    \/ \E t \in AppCallers : ApplicationRegisters(t)
    \/ \E t \in AppCallers, name \in AppNames, h \in 0..MaxScopes :
          ApplicationStop(t, name, h)
    \/ \E i \in 1..MaxScopes : AppBodyBegins(i)
    \/ \E i \in 1..MaxScopes : AppReturns(i)
    \/ \E i \in 1..MaxScopes : AppRaises(i)
    \/ \E i \in 1..MaxScopes : AppCancelled(i)
    \/ \E i \in 1..MaxScopes : AppRestarts(i)
    \/ \E i \in 1..MaxScopes : AppSleepCancelled(i)
    \/ AppTick
    \/ NodeExits

AppSpec == AppInit /\ [][AppNext]_vars

----------------------------------------------------------------------------
(* Properties of applications and of the node, checked under AppSpec.      *)

\* The subtree of scope i is started and running: its tasks have not all
\* ended and nothing has cancelled it.
SubtreeRunning(i) == scopes[i].pc # "done" /\ ~ScopeCancelled(i)

\* C25 as stated: under any interleaving of application.start calls for the
\* same module, two calls in flight at the same time included, at most one
\* subtree for that module is started and running.
C25_Original ==
    \A i, j \in 1..Len(scopes) :
        (scopes[i].name = scopes[j].name /\ SubtreeRunning(i) /\ SubtreeRunning(j))
            => i = j

\* application.stop has cancelled the subtree of scope i.
Stopped(i) == scopes[i].cancelled

\* C26 as stated: once application.stop has cancelled the subtree of an
\* application, its start function is not executed again.
C26_Original ==
    [][\A i \in 1..Len(scopes) :
          Stopped(i) => scopes'[i].exec_count = scopes[i].exec_count]_vars

\* C26 amended: application.stop(name) removes the entry of the name and
\* cancels the subtree it held, and leaves the other entries and subtrees
\* as they are; a stopped subtree is not in the registry; no attempt is
\* spawned in it, permanent or not, and only an attempt that was spawned
\* before the stop and had not begun begins after it, once; a stop of a name
\* without an entry changes nothing.
C26_Stop ==
    [][/\ \A n \in AppNames :
            (app_registry[n] # NoScope /\ app_registry'[n] = NoScope) =>
                /\ scopes'[app_registry[n]].cancelled
                /\ \A j \in 1..Len(scopes) : j # app_registry[n] => scopes'[j] = scopes[j]
                /\ \A m \in AppNames : m # n => app_registry'[m] = app_registry[m]
                /\ Len(scopes') = Len(scopes) /\ starting' = starting
       /\ \A i \in 1..Len(scopes') : Stopped(i)' => app_registry'[scopes'[i].name] # i
       /\ \A i \in 1..Len(scopes) :
            Stopped(i) =>
                /\ scopes'[i].pc = "spawned" => scopes[i].pc = "spawned"
                /\ scopes'[i].exec_count # scopes[i].exec_count =>
                      /\ scopes[i].pc = "spawned"
                      /\ scopes'[i].exec_count = scopes[i].exec_count + 1
       /\ node'.stopped_none # node.stopped_none =>
            /\ app_registry[node'.stopped_none] = NoScope
            /\ app_registry' = app_registry /\ scopes' = scopes
            /\ starting' = starting]_vars

\* A permanent application with a restart left was stopped in its first
\* attempt and ended without another, a second stop of its name found no
\* entry, and another application is running.
C26_Witness ==
    \E i, j \in 1..Len(scopes) :
        /\ Stopped(i) /\ scopes[i].pc = "done" /\ scopes[i].restart = PERMANENT
        /\ scopes[i].exec_count = 1 /\ max_restarts = 1
        /\ scopes[i].result = Cancelled
        /\ app_registry[scopes[i].name] = NoScope
        /\ node.stopped_none = scopes[i].name
        /\ j # i /\ SubtreeRunning(j) /\ scopes[j].pc = "running"

\* The error of the k-th attempt of the application of scope i, as it
\* leaves the supervisor.
AppError(i, k) == ChildRunnerRaises(RuntimeError(scopes[i].name, k))

\* The application of scope i is supervised as app_spec.permanent says.
SupervisedAsSpecified(i) ==
    scopes[i].restart = IF node.permanent[scopes[i].name] THEN PERMANENT ELSE TRANSIENT

\* A permanent application whose start returns normally, not cancelled: it
\* is run max_restarts + 1 times and ends without an error.
PermanentReturns(i) ==
    (node.permanent[scopes[i].name] /\ node.body[scopes[i].name] = "returns"
        /\ ~ScopeCancelled(i)) =>
        /\ scopes[i].exec_count <= max_restarts + 1
        /\ scopes[i].pc = "done" =>
              /\ scopes[i].exec_count = max_restarts + 1
              /\ scopes[i].result = Returned
              /\ node.errors = {}

\* An application that is not permanent and whose start returns normally,
\* not cancelled: it is run once.
TransientReturns(i) ==
    (~node.permanent[scopes[i].name] /\ node.body[scopes[i].name] = "returns"
        /\ ~ScopeCancelled(i)) =>
        /\ scopes[i].exec_count <= 1
        /\ scopes[i].pc # "sleep"
        /\ scopes[i].pc = "done" =>
              scopes[i].exec_count = 1 /\ scopes[i].result = Returned

\* An application that is not permanent and whose start always raises: it
\* is run max_restarts + 1 times, and unless a cancellation ended it the
\* error of the last attempt reaches the node's nursery, which cancels the
\* node.
TransientRaises(i) ==
    (~node.permanent[scopes[i].name] /\ node.body[scopes[i].name] = "raises") =>
        /\ scopes[i].exec_count <= max_restarts + 1
        /\ (scopes[i].pc = "done" /\ scopes[i].result # Cancelled) =>
              /\ scopes[i].exec_count = max_restarts + 1
              /\ scopes[i].result = AppError(i, max_restarts + 1)
              /\ scopes[i].result \in node.errors /\ node.cancelled

\* C27 as stated: an application is supervised as permanent if
\* app_spec.permanent else transient, and for every max_restarts = R and
\* every max_seconds a permanent application whose start returns is run
\* R + 1 times without error, one that is not permanent and returns is run
\* once, and one that is not permanent and always raises is run R + 1 times
\* and then its error reaches the node's nursery.
C27_Original ==
    \A i \in 1..Len(scopes) :
        /\ SupervisedAsSpecified(i)
        /\ PermanentReturns(i) /\ TransientReturns(i) /\ TransientRaises(i)

\* C27 amended: the same, the counts of R + 1 runs when the attempts of the
\* application end less than max_seconds apart (so max_seconds > 0).
C27_Supervised ==
    \A i \in 1..Len(scopes) :
        /\ SupervisedAsSpecified(i)
        /\ TransientReturns(i)
        /\ scopes[i].within => PermanentReturns(i) /\ TransientRaises(i)

\* With max_restarts = 1 a permanent application that returns ended after
\* two runs, and then one that is not permanent and raises ended after two
\* runs with its error in the node's nursery.
C27_Witness ==
    /\ max_restarts = 1
    /\ \E i, j \in 1..Len(scopes) :
          /\ scopes[i].restart = PERMANENT /\ node.body[scopes[i].name] = "returns"
          /\ scopes[i].pc = "done" /\ scopes[i].exec_count = 2
          /\ scopes[i].result = Returned /\ scopes[i].within /\ ~Stopped(i)
          /\ scopes[j].restart = TRANSIENT /\ node.body[scopes[j].name] = "raises"
          /\ scopes[j].pc = "done" /\ scopes[j].exec_count = 2 /\ scopes[j].within
          /\ node.errors = {AppError(j, 2)}

\* An _app_scope task was started for the k-th application of the list.
HasScope(k) == \E i \in 1..Len(scopes) : scopes[i].name = Apps[k]
\* The first of them.
FirstScope(k) ==
    CHOOSE i \in 1..Len(scopes) :
        /\ scopes[i].name = Apps[k]
        /\ \A j \in 1..Len(scopes) : scopes[j].name = Apps[k] => i <= j

\* node.run has ended and no task of an application is left.
EndedAfterAll ==
    node.pc = "done" =>
        /\ \A i \in 1..Len(scopes) : scopes[i].pc = "done"
        /\ \A t \in AppCallers : starting[t].pc = "idle"

\* C28 as stated: node.run returns when all applications have finished,
\* normally or after exhausting their restart budgets, and not while one
\* is running.
C28_Original == EndedAfterAll /\ (node.pc = "done" => node.result = Returned.type)

\* C28 amended: node._start calls application.start for the applications
\* in the order of the list, so that their tasks are started in that
\* order, all of them unless the node is cancelled first; node.run does
\* not end while a task of an application is left; it returns when no
\* error of an application reached the node's nursery and raises
\* otherwise.
C28_NodeRun ==
    /\ starting["node"].pc = "registering" => starting["node"].name = Apps[node.next]
    /\ \A k \in 1..Len(Apps) : k < node.next => HasScope(k)
    /\ \A k, l \in 1..Len(Apps) :
          (k < l /\ HasScope(l)) => HasScope(k) /\ FirstScope(k) < FirstScope(l)
    /\ (node.pc \in {"waiting", "done"} /\ ~node.cancelled) =>
          \A k \in 1..Len(Apps) : HasScope(k)
    /\ EndedAfterAll
    /\ node.pc = "done" =>
          node.result = IF node.errors = {} THEN Returned.type ELSE "raised"
    /\ node.pc # "done" => node.result = None

\* node.run returned: both applications were started and ended without an
\* error, one of them after a restart.
C28_Witness ==
    /\ node.pc = "done" /\ node.result = Returned.type /\ node.errors = {}
    /\ \A k \in 1..Len(Apps) : HasScope(k)
    /\ \E i \in 1..Len(scopes) : scopes[i].exec_count = 2 /\ scopes[i].result = Returned

\* C34 as stated: every name in the application registry refers to the
\* task group of an application that is still running; an application
\* that ended on its own is not in the registry.
C34_Original ==
    \A n \in AppNames :
        app_registry[n] # NoScope => scopes[app_registry[n]].pc # "done"

----------------------------------------------------------------------------
(* A named gen_server as a supervised child (supervisor.py, gen_server.py, *)
(* mailbox.py): the first child runs gen_server.start(module, name=a) and  *)
(* ends with an error each time; the second child is a task that returns;  *)
(* a task outside the supervisor sends to the name.                        *)

Server == Children[1]
Sibling == Children[2]

\* The id mailbox.create makes for the attempt: a fresh one each time.
AttemptMid(k) == "m" \o ToString(k)

\* No send was made yet.
NoSend == [result |-> None, mid |-> None, attempt |-> 0, server |-> None]

RestartInit ==
    /\ max_restarts \in 0..MaxRestarts
    /\ max_seconds \in 0..MaxSeconds
    /\ restart \in {r \in [ChildIds -> restart_strategy] :
                       r[Server] \in {PERMANENT, TRANSIENT} /\ r[Sibling] = TEMPORARY}
    /\ now = 0
    /\ pc = [c \in ChildIds |-> "init"]
    /\ exec_count = [c \in ChildIds |-> 0]
    /\ failure_times = [c \in ChildIds |-> <<>>]
    /\ outcome = [c \in ChildIds |-> Pending]
    /\ result = [c \in ChildIds |-> Pending]
    /\ cancelled = FALSE
    /\ sup = [pc |-> "starting", next |-> 1, result |-> None, errors |-> {}]
    /\ hist = [c \in ChildIds |-> HistInit]
    /\ mailbox_registry = {}
    /\ name_registry = [n \in Names |-> None]
    /\ chan = <<>> /\ task = <<>>
    /\ log = [sends |-> 0, parked |-> FALSE, last |-> NoSend]
    /\ lp = [attempt |-> 0, pc |-> "exited", mid |-> None, err |-> None]
    /\ lplog = [received |-> <<>>, terminated |-> <<>>]
    /\ DeferIdle /\ OpenIdle /\ GenIdle /\ AppIdle

\* What no step of the server or of the sender changes.
serverFixed == <<supVars, deferVars, openVars, genVars, appVars, chan, task>>

\* The body of the attempt runs up to its first mailbox.receive: _loop
\* enters mailbox.open(name), which creates a mailbox and registers the
\* name; when the name is taken it destroys the mailbox and the attempt
\* raises NameAlreadyExist.
ServerOpens ==
    LET k == exec_count[Server]
        mid == AttemptMid(k)
    IN  /\ pc[Server] = "running" /\ lp.attempt < k
        /\ IF name_registry[LoopName] # None
           THEN /\ lp' = [attempt |-> k, pc |-> "exited", mid |-> mid,
                          err |-> "NameAlreadyExist"]
                /\ UNCHANGED <<mailbox_registry, name_registry>>
           ELSE /\ lp' = [attempt |-> k, pc |-> "serving", mid |-> mid, err |-> None]
                /\ mailbox_registry' = mailbox_registry \cup {mid}
                /\ name_registry' = [name_registry EXCEPT ![LoopName] = mid]
        /\ UNCHANGED <<serverFixed, log, lplog>>

\* A handler raises: the except clause of _loop calls terminate, during
\* which the mailbox is still registered.
ServerFails ==
    /\ lp.pc = "serving"
    /\ lp' = [lp EXCEPT !.pc = "closing", !.err = "HandlerError"]
    /\ lplog' = [lplog EXCEPT !.terminated = Append(@, [reason |-> "HandlerError",
                                                       attempt |-> lp.attempt])]
    /\ UNCHANGED <<serverFixed, mailbox_registry, name_registry, log>>

\* A variant of the end of mailbox.open that leaves the name registered.
ServerCloses_KeepsName ==
    /\ lp.pc = "closing"
    /\ lp' = [lp EXCEPT !.pc = "exited"]
    /\ mailbox_registry' = mailbox_registry \ {lp.mid}
    /\ log' = IF log.parked
              THEN [log EXCEPT !.parked = FALSE,
                               !.last = [@ EXCEPT !.result = "ClosedResourceError"]]
              ELSE log
    /\ UNCHANGED <<serverFixed, name_registry, lplog>>

\* `raise err from None` leaves `async with mailbox.open(name)`: destroy
\* unregisters the name, pops the id and closes the channel, which wakes a
\* sender parked in mailbox.send with ClosedResourceError.
ServerCloses ==
    /\ lp.pc = "closing"
    /\ lp' = [lp EXCEPT !.pc = "exited"]
    /\ name_registry' = [n \in Names |->
                            IF name_registry[n] = lp.mid THEN None ELSE name_registry[n]]
    /\ mailbox_registry' = mailbox_registry \ {lp.mid}
    /\ log' = IF log.parked
              THEN [log EXCEPT !.parked = FALSE,
                               !.last = [@ EXCEPT !.result = "ClosedResourceError"]]
              ELSE log
    /\ UNCHANGED <<serverFixed, lplog>>

\* The error of gen_server.start leaves the child's task: the monitor of
\* the server records it and asks its retry strategy.
ServerAttemptEnds ==
    /\ lp.pc = "exited" /\ lp.attempt = exec_count[Server]
    /\ AttemptEnds(Server, ChildRunnerRaises(
                      Leaf(lp.err, Server \o "#" \o ToString(exec_count[Server]))))

\* mailbox.send(name, message) by a task outside the supervisor: without a
\* mailbox under the name it raises MailboxDoesNotExist; a server waiting
\* in mailbox.receive takes the message; else the sender waits in the send.
SendToServer ==
    LET mid == name_registry[LoopName]
        sent(res) == [result |-> res, mid |-> mid, attempt |-> lp.attempt,
                      server |-> lp.pc]
    IN  /\ log.sends < MaxSends /\ ~log.parked
        /\ sup.pc # "done"
        /\ IF mid = None \/ mid \notin mailbox_registry
           THEN /\ log' = [log EXCEPT !.sends = @ + 1,
                                      !.last = sent("MailboxDoesNotExist")]
                /\ UNCHANGED lplog
           ELSE IF lp.pc = "serving"
           THEN /\ log' = [log EXCEPT !.sends = @ + 1, !.last = sent("ok")]
                /\ lplog' = [lplog EXCEPT !.received =
                                Append(@, [mid |-> mid, attempt |-> lp.attempt])]
           ELSE /\ log' = [log EXCEPT !.sends = @ + 1, !.parked = TRUE,
                                      !.last = sent("parked")]
                /\ UNCHANGED lplog
        /\ UNCHANGED <<serverFixed, mailbox_registry, name_registry, lp>>

RestartNext ==
    \/ \E c \in ChildIds : StartMonitor(c)
    \/ \E c \in ChildIds : BodyBegins(c)
    \/ ServerOpens
    \/ ServerFails
    \/ ServerCloses
    \/ ServerAttemptEnds
    \/ RestartChild(Server)
    \/ ChildReturns(Sibling)
    \/ ChildCancelled(Sibling)
    \/ SendToServer
    \/ Tick
    \/ SupervisorExits

RestartSpec == RestartInit /\ [][RestartNext]_vars

\* C38: a supervised named gen_server that ends with an error is restarted
\* under its name. No attempt fails with NameAlreadyExist; at most one
\* mailbox is registered, the one of the attempt that serves, and the name
\* maps to it; between the end of an attempt and the body of the next the
\* name and the id are out of the registries; a send to the name while it
\* is unregistered raises MailboxDoesNotExist, and a message is only ever
\* taken by the attempt that serves.
C38_RestartUnderName ==
    [][/\ lp'.err # "NameAlreadyExist"
       /\ \A c \in ChildIds : outcome'[c].type # "NameAlreadyExist"
       /\ Cardinality(mailbox_registry') <= 1
       /\ \A n \in Names :
             name_registry'[n] # None =>
                 /\ n = LoopName
                 /\ lp'.pc \in {"serving", "closing"}
                 /\ name_registry'[n] = lp'.mid
                 /\ mailbox_registry' = {lp'.mid}
                 /\ lp'.attempt = exec_count'[Server]
       /\ pc'[Server] \in {"sleep", "spawned", "done"} =>
             (name_registry'[LoopName] = None /\ mailbox_registry' = {})
       /\ log'.sends # log.sends =>
             /\ name_registry[LoopName] = None =>
                   log'.last.result = "MailboxDoesNotExist"
             /\ lp.pc = "exited" => log'.last.result = "MailboxDoesNotExist"
             /\ log'.last.result = "ok" =>
                   /\ lp.pc = "serving"
                   /\ lplog'.received =
                         Append(lplog.received, [mid |-> lp.mid, attempt |-> lp.attempt])
       /\ lplog'.received # lplog.received => log'.sends # log.sends]_vars

\* The server serves in its second attempt under the name, with the mailbox
\* of that attempt; the last send was made in the gap after the first
\* attempt had ended and raised MailboxDoesNotExist.
C38_Witness ==
    /\ exec_count[Server] = 2 /\ lp.pc = "serving" /\ lp.attempt = 2
    /\ name_registry[LoopName] = AttemptMid(2)
    /\ mailbox_registry = {AttemptMid(2)}
    /\ log.last.result = "MailboxDoesNotExist"
    /\ log.last.attempt = 1 /\ log.last.server = "exited"

====
